---- MODULE Spec2Model ----
(***************************************************************************)
(* A model of the recipe/configuration parsing core of bb.parse:           *)
(*   bb/parse/__init__.py          (mtime cache, mark_dependency,          *)
(*                                  resolve_file, handler dispatch)        *)
(*   bb/parse/parse_py/BBHandler.py   (class index, inherit, handle)       *)
(*   bb/parse/parse_py/ConfHandler.py (include index, include, handle)     *)
(*   bb/parse/metrics.py           (counters)                              *)
(*                                                                         *)
(* A path is a pair <<dir, name>>.  dir is a pair <<base, sub>>: base is a  *)
(* layer directory ("/a", "/b"), "." (a path written "./...") or "" (a     *)
(* relative path), sub is "" or a class directory below the base.  name    *)
(* is a pair <<stem, ext>>.  The file system maps every absolute path to   *)
(* a stamp: 0 when the path does not exist, k > 0 for the k-th distinct    *)
(* (st_mtime_ns, st_size, st_ino) triple.                                  *)
(***************************************************************************)
EXTENDS Integers, Sequences, FiniteSets, TLC

(***************************************************************************)
(* Bounds of the model.                                                    *)
(***************************************************************************)
\* distinct stat triples a path can show while it exists
MaxStamp == 2
\* file-system changes in one behaviour
MaxFsChanges == 1
\* resolve_file calls in one behaviour (caps the metrics counters)
MaxResolveCalls == 2
\* direct mark_dependency calls in one behaviour
MaxMarkCalls == 1
\* resolve_file calls in one behaviour of the resolver cache alone
MaxLruCalls == 5
\* capacity of the resolve_file LRU; stands for _RESOLVE_CACHE_MAX (8192),
\* scaled so that eviction is reachable
ResolveCacheMax == 2
\* capacity of the class index (_class_index_max, 128) and of the include
\* index (_include_index_max, 256), scaled likewise
ClassIndexMax == 2
IncludeIndexMax == 2
\* capacity of the inherit memo (_inherit_resolved_max, 8192), scaled
InheritResolvedMax == 2
\* distinct stat results a directory can show
MaxDirStamp == 3
\* index and inherit-resolution calls in one behaviour
MaxIndexCalls == 4
\* capacity of the include LRU (_include_resolve_max, 8192), scaled
IncludeResolveMax == 2
\* handle calls in progress at one time; stands for the interpreter's
\* recursion limit
MaxDepth == 3
\* parse-level calls in one behaviour
MaxParseCalls == 2
\* calls of bb.parse.supports in one behaviour
MaxSupportsCalls == 3
\* calls of the metrics module one thread makes in one behaviour
MaxMetricCalls == 2

(***************************************************************************)
(* Paths and the file system.                                              *)
(***************************************************************************)
AbsBases == {"/a", "/b"}
Cwd == "/a"
Subs == {"", "classes", "classes-recipe"}
AbsDirs == AbsBases \X Subs

\* the files of the resolver's scenarios
F == <<"f", ".conf">>
G == <<"g", ".inc">>
Names == {F, G}
\* class files; a stem with a "/" names a file in a subdirectory
BaseClass == <<"base", ".bbclass">>
SubClass == <<"sub/other", ".bbclass">>
MidClass == <<"mid", ".bbclass">>
ClassNames == {BaseClass, SubClass, MidClass}
\* the files of the parsing scenarios
R == <<"r", ".bb">>
OpenInc == <<"open", ".inc">>
UnclosedInc == <<"unclosed", ".inc">>
ContInc == <<"cont", ".inc">>
SelfInc == <<"self", ".inc">>
RelSelfInc == <<"relself", ".inc">>
CycA == <<"cyca", ".inc">>
CycB == <<"cycb", ".inc">>
OpenRecipe == <<"openr", ".bb">>
\* a recipe and an include file whose evaluation raises SkipRecipe, and a
\* recipe that requires the include file
SkipRecipe == <<"skipr", ".bb">>
SkipInc == <<"skip", ".inc">>
SkipUser == <<"skipq", ".bb">>
\* a configuration file whose evaluation raises SkipRecipe, a class that
\* includes it and a recipe that inherits the class
SkipConf == <<"skip", ".conf">>
SkipClass == <<"skipc", ".bbclass">>
SkipClassRecipe == <<"skipcr", ".bb">>
\* files that require a file that exists nowhere
BadInc == <<"bad", ".inc">>
BadConf == <<"bad", ".conf">>
Missing == <<"missing", ".inc">>
\* a class that exists nowhere
NoClass == <<"nocls", ".bbclass">>
\* the files whose lines the grammar scenarios choose
LinesInc == <<"lines", ".inc">>
LinesConf == <<"lines", ".conf">>
\* two classes that inherit each other, a class that inherits itself, and
\* the recipes that inherit them
CycClassA == <<"cyca", ".bbclass">>
CycClassB == <<"cycb", ".bbclass">>
SelfClass == <<"selfc", ".bbclass">>
CycRecipe == <<"cycr", ".bb">>
SelfClassRecipe == <<"selfr", ".bb">>
ParseNames == {R, OpenInc, UnclosedInc, ContInc, SelfInc, RelSelfInc,
               CycClassA, CycClassB, SelfClass, CycRecipe, SelfClassRecipe,
               CycA, CycB, OpenRecipe, LinesInc, LinesConf, SkipRecipe,
               SkipInc, SkipUser, BadInc, BadConf, Missing, SkipConf,
               SkipClass, SkipClassRecipe, NoClass}
FileNames == Names \cup ClassNames \cup ParseNames
HasSlash(name) == name[1] \in {"sub/other"}
\* d.getVar("__bbclasstype", False)
BBCLASSTYPE == "recipe"

AbsPaths == AbsDirs \X FileNames
\* the values d.getVar("BBPATH") takes, already split on ":"
BBPaths == {<<"/a", "/b">>, <<".", "/b">>}

Dir(base) == <<base, "">>
Path(base, name) == <<Dir(base), name>>

\* the false value a failed lookup returns ("" or None)
NoFile == <<<<"", "">>, <<"", "">>>>

VARIABLES
    fs,             \* AbsPaths -> 0..MaxStamp : what os.stat sees
    dstamp,         \* AbsDirs -> 0..MaxDirStamp : os.stat of a directory
    nonreg,         \* absolute paths that are directories when they exist
    fsChanges,      \* number of file-system changes so far
    markCalls,      \* number of direct mark_dependency calls so far
    env,            \* the BB_OPT_* switches that are set
    BBPATH,         \* d.getVar("BBPATH") of the datastore
    depends,        \* d.getVar("__depends"): sequence of <<path, stamp>>
    mtime_cache,    \* __mtime_cache: path -> stamp (a partial function)
    resolve_cache,  \* _resolve_cache: key -> <<newfn, attempts>>
    resolve_order,  \* _resolve_cache_order: sequence of keys
    totals,         \* metrics._totals: section -> [hits, misses, evictions]
    times,          \* metrics._times: section -> count of timed sections
    lastR,          \* the most recent resolver-level call and its outcome
    seen,           \* history: names resolved on the current datastore
    lru,            \* history: resolver keys by last access, oldest first
    overflows,      \* history: insertions made into a full resolver cache
    class_index_cache,      \* _class_index_cache: key -> <<fp, cmap>>
    class_index_order,      \* _class_index_order
    include_index_cache,    \* _include_index_cache: key -> <<fp, cmap>>
    include_index_order,    \* _include_index_order
    inherit_resolved_cache, \* _inherit_resolved_cache: key -> <<path, attempts>>
    inherit_resolved_order, \* _inherit_resolved_order
    lastI,          \* the most recent index-level call and its outcome
    fresh,          \* history: index keys built since the last directory change
    used,           \* history: index keys ever looked up
    changedCls,     \* history: class files added or removed, not yet resolved
    indexCalls,     \* number of index-level calls so far
    cached_statements,      \* BBHandler.cached_statements: path -> tree
    conf_statements_cache,  \* _conf_statements_cache: <<path, baseconfig>> -> tree
    supports_cache,         \* _supports_cache: extension -> handler
    include_resolve_cache,  \* _include_resolve_cache: key -> <<path, attempts>>
    include_resolve_order,  \* _include_resolve_order
    infunc,         \* BBHandler.__infunc__ ([] is <<>>)
    body,           \* BBHandler.__body__
    residue,        \* BBHandler.__residue__
    classname,      \* BBHandler.__classname__
    FILE,           \* d.getVar("FILE") (NoFile when unset)
    inherit_cache,  \* d.getVar("__inherit_cache")
    SKIPPED,        \* d.getVar("__SKIPPED") (FALSE when unset)
    returned,       \* history: what the handle functions returned, in order
    handled,        \* history: the calls of bb.parse.handle on this datastore
    opened,         \* history: the files opened and fed to a feeder
    trees,          \* history: number of statement trees built so far
    built,          \* history: path -> the tree get_statements gave first
    inherited,      \* history: the class files inherit called handle for
    lastP,          \* the most recent parse-level call and its outcome
    parseCalls,     \* number of parse-level calls so far
    flines,         \* the lines of the files LinesInc and LinesConf
    BB_DEFER_BBCLASSES,     \* d.getVar("BB_DEFER_BBCLASSES"), split
    BBDEFINHERITS,  \* d.getVar("__BBDEFINHERITS"): <<name, fn, lineno>>
    inchistory,     \* data.inchistory: the files of the open include scopes
    scopes,         \* history: the files an include scope was entered for
    lock,           \* metrics._lock: the thread that holds it, or NoThread
    threads,        \* thread -> the metrics call it is in and its position
    calls,          \* history: <<section, field>> -> calls that returned
    flushed         \* history: the payload the most recent flush wrote

resolverVars == <<fs, dstamp, nonreg, fsChanges, markCalls, env, BBPATH,
                  depends, mtime_cache, resolve_cache, resolve_order, totals,
                  times, lastR, seen, lru, overflows>>

indexVars == <<class_index_cache, class_index_order, include_index_cache,
               include_index_order, inherit_resolved_cache,
               inherit_resolved_order, lastI, fresh, used,
               changedCls, indexCalls>>

parseVars == <<cached_statements, conf_statements_cache, supports_cache,
               include_resolve_cache, include_resolve_order, infunc, body,
               residue, classname, FILE, inherit_cache, SKIPPED, returned,
               handled, opened, trees, built, inherited, lastP, parseCalls,
               flines, BB_DEFER_BBCLASSES, BBDEFINHERITS, inchistory, scopes>>

metricsVars == <<lock, threads, calls, flushed>>

vars == <<resolverVars, indexVars, parseVars, metricsVars>>

(***************************************************************************)
(* Helpers on sequences and partial functions (Python list / dict).        *)
(***************************************************************************)
Range(s) == {s[i] : i \in DOMAIN s}

Put(m, k, v) == [x \in DOMAIN m \cup {k} |-> IF x = k THEN v ELSE m[x]]

Del(m, k) == [x \in DOMAIN m \ {k} |-> m[x]]

\* call by value: v is evaluated once and Op is applied to its value
Bind(v, Op(_)) == CHOOSE r \in {Op(x) : x \in {v}} : TRUE

NoDup(s) == \A i, j \in DOMAIN s : i # j => s[i] # s[j]

IsPrefix(s, t) == Len(s) <= Len(t) /\ SubSeq(t, 1, Len(s)) = s

\* list.remove(x): drops the first occurrence (ValueError when absent is
\* caught by every caller, leaving the list as it was)
RECURSIVE RemoveFirst(_, _)
RemoveFirst(s, x) ==
    IF s = <<>> THEN <<>>
    ELSE IF Head(s) = x THEN Tail(s)
    ELSE <<Head(s)>> \o RemoveFirst(Tail(s), x)

(***************************************************************************)
(* os.path                                                                 *)
(***************************************************************************)
IsAbs(p) == p[1][1] \in AbsBases

\* os.path.join(base, p)
Join(base, p) == IF IsAbs(p) THEN p ELSE <<<<base, p[1][2]>>, p[2]>>

\* os.path.abspath(p), the path the operating system reads for p: relative
\* paths are taken from the current working directory
Real(p) == IF IsAbs(p) THEN p ELSE <<<<Cwd, p[1][2]>>, p[2]>>

\* os.stat(p): 0 stands for OSError; nothing exists outside the tree fs
\* describes
Stat(p) == IF Real(p) \in DOMAIN fs THEN fs[Real(p)] ELSE 0

Exists(p) == Stat(p) # 0

IsFile(p) == Exists(p) /\ Real(p) \notin nonreg

(***************************************************************************)
(* metrics.py                                                              *)
(***************************************************************************)
Sections == {"which", "resolve_file", "inherit", "include", "conf_ast",
             "supports", "include_index", "class_index", "which_dir_index"}

Fields == {"hits", "misses", "evictions"}

\* a section name _totals has no bucket for
NoSection == "nosuch"

ZeroTotals == [s \in Sections |-> [hits |-> 0, misses |-> 0, evictions |-> 0]]

\* _bump: a section without a bucket raises inside the try and is dropped
Bump(t, section, field) ==
    IF section \in DOMAIN t
    THEN [t EXCEPT ![section][field] = @ + 1]
    ELSE t

\* time_start / time_end around a section: one more timed run of it
Timed(tm, section) ==
    IF section \in DOMAIN tm
    THEN [tm EXCEPT ![section] = @ + 1]
    ELSE Put(tm, section, 1)

TimedSections == {"which", "resolve_file", "inherit", "include",
                  "conf_ast_parse", "conf_eval", "supports"}

ZeroTimes == [s \in TimedSections |-> 0]

Hit(t, section) == Bump(t, section, "hits")
Miss(t, section) == Bump(t, section, "misses")
Evict(t, section) == Bump(t, section, "evictions")

\* the threads that call into the metrics module
Threads == {"t1", "t2"}
NoThread == "none"
IdleThread == [pc |-> "idle", op |-> "none", section |-> "", field |-> "",
               tmp |-> 0, raised |-> FALSE, made |-> 0]
ZeroCalls == [k \in (Sections \cup {NoSection}) \X Fields |-> 0]

InitThreads ==
    /\ lock = NoThread
    /\ threads = [t \in Threads |-> IdleThread]
    /\ calls = ZeroCalls
    /\ flushed = <<>>

(***************************************************************************)
(* The mtime cache and the dependency record.                              *)
(***************************************************************************)
\* cached_mtime_noerror(f): <<the cache afterwards, the stamp returned>>
cached_mtime_noerror(mc, f) ==
    IF f \notin DOMAIN mc
    THEN IF Stat(f) = 0
         THEN <<mc, 0>>
         ELSE <<Put(mc, f, Stat(f)), Stat(f)>>
    ELSE <<mc, mc[f]>>

\* the "./" rewrite at the head of mark_dependency
DepPath(f) == IF f[1][1] = "." THEN <<<<Cwd, f[1][2]>>, f[2]>> ELSE f

\* mutant: the entry is appended without looking for an equal one
mark_dependency_NoCheck(st, f0) ==
    LET f == DepPath(f0)
        r == cached_mtime_noerror(st.mc, f)
    IN  [deps |-> Append(st.deps, <<f, r[2]>>), mc |-> r[1]]

\* mark_dependency(d, f) on the pair [deps, mc]
mark_dependency(st, f0) ==
    LET f == DepPath(f0)
        r == cached_mtime_noerror(st.mc, f)
        s == <<f, r[2]>>
    IN  [deps |-> IF s \in Range(st.deps) THEN st.deps ELSE Append(st.deps, s),
         mc   |-> r[1]]

RECURSIVE MarkAll(_, _)
MarkAll(st, attempts) ==
    IF attempts = <<>> THEN st
    ELSE MarkAll(mark_dependency(st, Head(attempts)), Tail(attempts))

\* check_dependency(d, f): <<the cache afterwards, the answer>>
check_dependency(st, f) ==
    LET r == cached_mtime_noerror(st.mc, f)
    IN  <<r[1], <<f, r[2]>> \in Range(st.deps)>>

(***************************************************************************)
(* bb.utils.which(path, item, history=True): walk the search path, test    *)
(* join(dir, item) for existence, first existing path wins, every path     *)
(* tested is appended to the attempts.                                     *)
(***************************************************************************)
RECURSIVE WhichFrom(_, _, _)
WhichFrom(dirs, item, hist) ==
    IF dirs = <<>> THEN <<NoFile, hist>>
    ELSE LET next == Join(Head(dirs), item)
         IN  IF Exists(next)
             THEN <<Real(next), Append(hist, next)>>
             ELSE WhichFrom(Tail(dirs), item, Append(hist, next))

which(path, item) == WhichFrom(path, item, <<>>)

(***************************************************************************)
(* resolve_file(fn, d).  The program state it reads and writes is passed   *)
(* as a record [deps, mc, rc, ro, tot, tm]; the result adds ret (the path  *)
(* returned, NoFile when the call raises), err, the attempts used and      *)
(* whether the resolver cache answered.                                    *)
(***************************************************************************)
EmptyMap == [x \in {} |-> 0]

NoErr == <<"none", "", "">>
\* IOError(errno.ENOENT, "file %s not found in %s")
ErrNotFoundInPath == <<"IOError", "ENOENT", "file not found in BBPATH">>
\* IOError(errno.ENOENT, "file %s not found")
ErrNotFound == <<"IOError", "ENOENT", "file not found">>

\* mutant: the key leaves BBPATH out
ResolveKey_NameOnly(fn, bp) == <<fn, FALSE, <<>>>>

\* line 179: key = (fn, False, bbpath)
ResolveKey(fn, bp) == <<fn, FALSE, bp>>

ResolveCacheDisabled == "BB_OPT_DISABLE_RESOLVE_CACHE" \in env

\* mutant: a hit does not move the key to the end of the order
ResolveHit_NoRefresh(st, key) ==
    [st EXCEPT !.tot = Hit(st.tot, "resolve_file")]

\* mutant: an answer of the cache is counted as a miss
ResolveHit_CountsMiss(st, key) ==
    [st EXCEPT !.ro  = Append(RemoveFirst(st.ro, key), key),
               !.tot = Miss(st.tot, "resolve_file")]

\* lines 183-191: the cache answered; refresh the LRU order
ResolveHit(st, key) ==
    [st EXCEPT !.ro  = Append(RemoveFirst(st.ro, key), key),
               !.tot = Hit(st.tot, "resolve_file")]

\* lines 196-202: store the walk's result, evict the oldest key when the
\* order list outgrows the capacity
ResolveStore(st, key, val) ==
    LET rc1 == Put(st.rc, key, val)
        ro1 == Append(st.ro, key)
    IN  IF Len(ro1) > ResolveCacheMax
        THEN [st EXCEPT !.rc  = Del(rc1, Head(ro1)),
                        !.ro  = Tail(ro1),
                        !.tot = Evict(st.tot, "resolve_file")]
        ELSE [st EXCEPT !.rc = rc1, !.ro = ro1]

\* lines 193-204: walk the search path, store unless the cache is disabled
ResolveMiss(st, key, bp, fn) ==
    LET w   == which(bp, fn)
        st1 == IF ResolveCacheDisabled THEN st ELSE ResolveStore(st, key, w)
    IN  [st1 EXCEPT !.tot = Miss(st1.tot, "resolve_file")]

\* line 181: cached = None if disable_cache else _resolve_cache.get(key)
ResolveCached(st, key) == ~ResolveCacheDisabled /\ key \in DOMAIN st.rc

\* mutant: the attempts are marked only when the walk was made
ResolveMarks_MissOnly(st, attempts, hit) ==
    IF hit THEN st
    ELSE LET m == MarkAll([deps |-> st.deps, mc |-> st.mc], attempts)
         IN  [st EXCEPT !.deps = m.deps, !.mc = m.mc]

\* lines 206-207: every attempt is marked, on a hit as on a miss
ResolveMarks(st, attempts, hit) ==
    LET m == MarkAll([deps |-> st.deps, mc |-> st.mc], attempts)
    IN  [st EXCEPT !.deps = m.deps, !.mc = m.mc]

resolve_file(st0, fn, bp) ==
    LET st == [st0 EXCEPT !.tm = Timed(st0.tm, "resolve_file")]
    IN  IF ~IsAbs(fn)
        THEN LET key      == ResolveKey(fn, bp)
                 hit      == ResolveCached(st, key)
                 cached   == IF hit THEN st.rc[key] ELSE which(bp, fn)
                 newfn    == cached[1]
                 attempts == cached[2]
                 st1      == IF hit THEN ResolveHit(st, key)
                                    ELSE ResolveMiss(st, key, bp, fn)
                 st2      == ResolveMarks(st1, attempts, hit)
             IN  IF newfn = NoFile
                 THEN [st |-> st2, ret |-> NoFile, err |-> ErrNotFoundInPath,
                       attempts |-> attempts, hit |-> hit]
                 ELSE IF ~IsFile(newfn)
                 THEN [st |-> st2, ret |-> NoFile, err |-> ErrNotFound,
                       attempts |-> attempts, hit |-> hit]
                 ELSE [st |-> st2, ret |-> newfn, err |-> NoErr,
                       attempts |-> attempts, hit |-> hit]
        ELSE LET m   == mark_dependency([deps |-> st.deps, mc |-> st.mc], fn)
                 st2 == [st EXCEPT !.deps = m.deps, !.mc = m.mc]
             IN  IF ~IsFile(fn)
                 THEN [st |-> st2, ret |-> NoFile, err |-> ErrNotFound,
                       attempts |-> <<>>, hit |-> FALSE]
                 ELSE [st |-> st2, ret |-> fn, err |-> NoErr,
                       attempts |-> <<>>, hit |-> FALSE]

(***************************************************************************)
(* Directory indexes (BBHandler._get_class_index and                       *)
(* ConfHandler._get_include_index).  An index entry is <<fp, cmap>>: the   *)
(* fingerprint of the directory list and the mapping built from it.        *)
(***************************************************************************)
NoDir == <<"", "">>

RealDir(d) == IF d[1] \in AbsBases THEN d ELSE <<Cwd, d[2]>>

IsDir(d) == dstamp[RealDir(d)] # 0

\* os.scandir(d): the names of the entries directly in d
Scandir(d) == {n \in FileNames : ~HasSlash(n) /\ fs[<<RealDir(d), n>>] # 0}

\* ["classes-" + str(classtype), "classes"]
ClassSubs(ct) == <<"classes-" \o ct, "classes">>

\* every join(p, t) of _bbpath_dirs_for_classes, before the isdir test
RECURSIVE ClassCandDirs(_, _)
ClassCandDirs(bp, ct) ==
    IF bp = <<>> THEN <<>>
    ELSE (IF Head(bp) = "" THEN <<>>
          ELSE <<<<Head(bp), ClassSubs(ct)[1]>>, <<Head(bp), ClassSubs(ct)[2]>>>>)
         \o ClassCandDirs(Tail(bp), ct)

_bbpath_dirs_for_classes(bp, ct) == SelectSeq(ClassCandDirs(bp, ct), IsDir)

\* (d, st_mtime_ns, st_ino) per directory, (d, 0, 0) when stat fails
_dirs_fingerprint(dirs) ==
    [i \in DOMAIN dirs |-> <<dirs[i], dstamp[RealDir(dirs[i])]>>]

RECURSIVE BuildClassMap(_, _)
BuildClassMap(dirs, m) ==
    IF dirs = <<>> THEN m
    ELSE LET d   == Head(dirs)
             new == {n[1] : n \in {x \in Scandir(d) : x[2] = ".bbclass"}}
                        \ DOMAIN m
         IN  BuildClassMap(Tail(dirs),
                 [c \in DOMAIN m \cup new |->
                     IF c \in DOMAIN m THEN m[c] ELSE <<d, <<c, ".bbclass">>>>])

_build_class_index(bp, ct) ==
    LET dirs == _bbpath_dirs_for_classes(bp, ct)
    IN  <<_dirs_fingerprint(dirs), BuildClassMap(dirs, EmptyMap)>>

ClassIndexKey(bp, ct) == <<ct, bp>>

\* lines 97-106: the stored fingerprint is current
ClassIndexCurrent(st, key, fp) ==
    key \in DOMAIN st.cic /\ st.cic[key][1] = fp

\* lines 108-113: (re)build, store, append the key, trim the order list
ClassIndexRebuild(st, key, bp, ct) ==
    LET entry == _build_class_index(bp, ct)
        cic1  == Put(st.cic, key, entry)
        cio1  == Append(st.cio, key)
    IN  IF Len(cio1) > ClassIndexMax
        THEN [st EXCEPT !.cic = Del(cic1, Head(cio1)), !.cio = Tail(cio1)]
        ELSE [st EXCEPT !.cic = cic1, !.cio = cio1]

\* _get_class_index(bbpath, classtype): the state afterwards, the mapping
\* returned and whether the directories were scanned
_get_class_index(st, bp, ct) ==
    LET key == ClassIndexKey(bp, ct)
        fp  == _dirs_fingerprint(_bbpath_dirs_for_classes(bp, ct))
    IN  IF ClassIndexCurrent(st, key, fp)
        THEN [st |-> [st EXCEPT !.cio = Append(RemoveFirst(st.cio, key), key)],
              cmap |-> st.cic[key][2], rebuilt |-> FALSE]
        ELSE [st |-> ClassIndexRebuild(st, key, bp, ct),
              cmap |-> _build_class_index(bp, ct)[2], rebuilt |-> TRUE]

RECURSIVE BBPathDirs(_)
BBPathDirs(bp) ==
    IF bp = <<>> THEN <<>>
    ELSE (IF Head(bp) = "" THEN <<>> ELSE <<Dir(Head(bp))>>)
         \o BBPathDirs(Tail(bp))

_include_search_dirs(dname, bp) ==
    (IF dname = NoDir THEN <<>> ELSE <<dname>>) \o BBPathDirs(bp)

RECURSIVE BuildIncludeMap(_, _)
BuildIncludeMap(dirs, m) ==
    IF dirs = <<>> THEN m
    ELSE LET d   == Head(dirs)
             new == {n \in Scandir(d) : <<RealDir(d), n>> \notin nonreg}
                        \ DOMAIN m
         IN  BuildIncludeMap(Tail(dirs),
                 [n \in DOMAIN m \cup new |->
                     IF n \in DOMAIN m THEN m[n] ELSE <<d, n>>])

_build_include_index(dname, bp) ==
    LET dirs == _include_search_dirs(dname, bp)
    IN  <<_dirs_fingerprint(dirs), BuildIncludeMap(dirs, EmptyMap)>>

IncludeIndexKey(dname, bp) == <<dname, bp>>

IncludeIndexCurrent(st, key, fp) ==
    key \in DOMAIN st.iic /\ st.iic[key][1] = fp

\* lines 284-289
IncludeIndexRebuild(st, key, dname, bp) ==
    LET entry == _build_include_index(dname, bp)
        iic1  == Put(st.iic, key, entry)
        iio1  == Append(st.iio, key)
    IN  IF Len(iio1) > IncludeIndexMax
        THEN [st EXCEPT !.iic = Del(iic1, Head(iio1)), !.iio = Tail(iio1)]
        ELSE [st EXCEPT !.iic = iic1, !.iio = iio1]

_get_include_index(st, dname, bp) ==
    LET key == IncludeIndexKey(dname, bp)
        fp  == _dirs_fingerprint(_include_search_dirs(dname, bp))
    IN  IF IncludeIndexCurrent(st, key, fp)
        THEN [st |-> [st EXCEPT !.iio = Append(RemoveFirst(st.iio, key), key)],
              cmap |-> st.iic[key][2], rebuilt |-> FALSE]
        ELSE [st |-> IncludeIndexRebuild(st, key, dname, bp),
              cmap |-> _build_include_index(dname, bp)[2], rebuilt |-> TRUE]

\* _include_index_resolve(dname, bbpath, filename)
_include_index_resolve(st, dname, bp, filename) ==
    LET g    == _get_include_index(st, dname, bp)
        dirs == _include_search_dirs(dname, bp)
    IN  [st |-> g.st,
         ret |-> IF filename \in DOMAIN g.cmap THEN g.cmap[filename] ELSE NoFile,
         attempts |-> [i \in DOMAIN dirs |-> Real(<<dirs[i], filename>>)],
         rebuilt |-> g.rebuilt]

(***************************************************************************)
(* The inherit memo and _resolve_inherit_file.                             *)
(***************************************************************************)
InheritKey(origfile, ct, bp) == <<origfile, ct, bp>>

\* _inherit_cache_get(key): list.remove raises ValueError for a key that is
\* not in the order list, which counts as a miss
_inherit_cache_get(st, key) ==
    IF key \in Range(st.iro) /\ key \in DOMAIN st.irc
    THEN [st |-> [st EXCEPT !.iro = Append(RemoveFirst(st.iro, key), key),
                            !.tot = Hit(st.tot, "inherit")],
          hit |-> TRUE, val |-> st.irc[key]]
    ELSE [st |-> [st EXCEPT !.iro = IF key \in Range(st.iro)
                                    THEN Append(RemoveFirst(st.iro, key), key)
                                    ELSE st.iro,
                            !.tot = Miss(st.tot, "inherit")],
          hit |-> FALSE, val |-> <<NoFile, <<>>>>]

_inherit_cache_put(st, key, value) ==
    LET irc1 == Put(st.irc, key, value)
        iro1 == Append(st.iro, key)
    IN  IF Len(iro1) > InheritResolvedMax
        THEN [st EXCEPT !.irc = Del(irc1, Head(iro1)), !.iro = Tail(iro1),
                        !.tot = Evict(st.tot, "inherit")]
        ELSE [st EXCEPT !.irc = irc1, !.iro = iro1]

\* os.path.join(t, '%s.bbclass' % origfile)
ClassCand(origfile, t) == <<<<"", t>>, <<origfile[2][1], ".bbclass">>>>

\* lines 164-170 and 175-181: which() for classes-<type>, then for classes
WhichClasses(bp, origfile, ct) ==
    LET w1 == which(bp, ClassCand(origfile, ClassSubs(ct)[1]))
        w2 == which(bp, ClassCand(origfile, ClassSubs(ct)[2]))
    IN  IF w1[1] # NoFile THEN w1 ELSE <<w2[1], w1[2] \o w2[2]>>

\* lines 194-199: the candidates in search order, as absolute paths
RECURSIVE ClassAttempts(_, _, _)
ClassAttempts(bp, origfile, ct) ==
    IF bp = <<>> THEN <<>>
    ELSE (IF Head(bp) = "" THEN <<>>
          ELSE << Real(Join(Head(bp), ClassCand(origfile, ClassSubs(ct)[1]))),
                  Real(Join(Head(bp), ClassCand(origfile, ClassSubs(ct)[2]))) >>)
         \o ClassAttempts(Tail(bp), origfile, ct)

ClassIndexDisabled == "BB_OPT_DISABLE_CLASS_INDEX" \in env

\* lines 160-199: resolution when the memo has no answer
InheritLookup(st, origfile, bp, ct) ==
    IF HasSlash(origfile[2])
    THEN [st |-> st, val |-> WhichClasses(bp, origfile, ct),
          indexed |-> FALSE, rebuilt |-> FALSE]
    ELSE IF ClassIndexDisabled
    THEN LET w == WhichClasses(bp, origfile, ct)
         IN  [st |-> [st EXCEPT !.tot = Miss(st.tot, "class_index")],
              val |-> <<w[1], w[2] \o ClassAttempts(bp, origfile, ct)>>,
              indexed |-> FALSE, rebuilt |-> FALSE]
    ELSE LET g == _get_class_index(st, bp, ct)
             resolved == IF origfile[2][1] \in DOMAIN g.cmap
                         THEN g.cmap[origfile[2][1]] ELSE NoFile
         IN  [st |-> [g.st EXCEPT !.tot = IF resolved # NoFile
                                          THEN Hit(g.st.tot, "class_index")
                                          ELSE Miss(g.st.tot, "class_index")],
              val |-> <<resolved, ClassAttempts(bp, origfile, ct)>>,
              indexed |-> TRUE, rebuilt |-> g.rebuilt]

\* _resolve_inherit_file(d, origfile): the state afterwards and the pair
\* (resolved_path, attempts) returned
_resolve_inherit_file(st0, origfile, bp, ct) ==
    LET st  == [st0 EXCEPT !.tm = Timed(st0.tm, "inherit")]
        key == InheritKey(origfile, ct, bp)
    IN  IF ~IsAbs(origfile) /\ origfile[2][2] # ".bbclass"
        THEN LET c == _inherit_cache_get(st, key)
             IN  IF c.hit
                 THEN [st |-> c.st, val |-> c.val, hit |-> TRUE,
                       indexed |-> FALSE, rebuilt |-> FALSE]
                 ELSE LET l == InheritLookup(c.st, origfile, bp, ct)
                      IN  [st |-> _inherit_cache_put(l.st, key, l.val),
                           val |-> l.val, hit |-> FALSE,
                           indexed |-> l.indexed, rebuilt |-> l.rebuilt]
        ELSE [st |-> st,
              val |-> <<IF Exists(origfile) THEN origfile ELSE NoFile, <<>>>>,
              hit |-> FALSE, indexed |-> FALSE, rebuilt |-> FALSE]

(***************************************************************************)
(* The text of the files.  A line is [kind, arg, txt].  txt is the text of *)
(* the line without its newline, one element per character or word:       *)
(*   "A" a variable name, "=" the assignment operator, "q" a double quote, *)
(*   "v" a character of a value, "#", Backslash, " " a blank,              *)
(*   "f{" the opening of a shell function (do_foo() {), "}",               *)
(*   and the words include, require and inherit, whose file or class names  *)
(*   are in arg.                                                            *)
(* kind names the line for the scenarios:                                  *)
(*   assign   A = "v"            func    do_foo() {                        *)
(*   close    }                  text    v"   (no expression matches it)   *)
(*   cont     A = "v\            (text closes what cont opens)             *)
(*   skip     A = "!"            ("!" an expression whose evaluation       *)
(*                                raises SkipRecipe)                       *)
(***************************************************************************)
Backslash == "\\"

\* the text of a line of each kind
TextOf(kind) ==
    IF kind = "assign" THEN <<"A", "=", "q", "v", "q">>
    ELSE IF kind = "func" THEN <<"f{">>
    ELSE IF kind = "close" THEN <<"}">>
    ELSE IF kind = "cont" THEN <<"A", "=", "q", "v", Backslash>>
    ELSE IF kind = "text" THEN <<"v", "q">>
    ELSE IF kind = "skip" THEN <<"A", "=", "q", "!", "q">>
    ELSE <<kind>>

Line(kind) == [kind |-> kind, arg |-> <<>>, txt |-> TextOf(kind)]
LineOf(kind, arg) == [kind |-> kind, arg |-> arg, txt |-> TextOf(kind)]
\* a line given by its text alone
Raw(txt) == [kind |-> "raw", arg |-> <<>>, txt |-> txt]

\* str.rstrip()
RECURSIVE rstrip(_)
rstrip(s) ==
    IF s # <<>> /\ s[Len(s)] = " " THEN rstrip(SubSeq(s, 1, Len(s) - 1))
    ELSE s

\* not s.strip()
IsBlank(s) == \A i \in DOMAIN s : s[i] = " "

\* s[:-1]
DropLast(s) == SubSeq(s, 1, Len(s) - 1)

\* s and s[-1] == '\\'
EndsBackslash(s) == s # <<>> /\ s[Len(s)] = Backslash

\* s and s[0] == '#'
StartsHash(s) == s # <<>> /\ s[1] = "#"

\* "".join(l)
RECURSIVE StrJoin(_)
StrJoin(l) == IF l = <<>> THEN <<>> ELSE Head(l) \o StrJoin(Tail(l))

\* __config_regexp__.match(s): a name, the operator, and a value between
\* quotes; the two lookaheads refuse a value text with exactly three quotes
IsAssign(s) ==
    /\ Len(s) >= 4
    /\ s[1] = "A" /\ s[2] = "=" /\ s[3] = "q" /\ s[Len(s)] = "q"
    /\ Cardinality({i \in 3..Len(s) : s[i] = "q"}) # 3

\* the regular expression of the feeders that s matches
Classify(s) ==
    IF s = <<"f{">> THEN "func"
    ELSE IF s = <<"inherit">> THEN "inherit"
    ELSE IF IsAssign(s) THEN "assign"
    ELSE IF s = <<"include">> THEN "include"
    ELSE IF s = <<"require">> THEN "require"
    ELSE "text"

PlainMid == <<NoDir, <<"mid", "">>>>
PlainBase == <<NoDir, <<"base", "">>>>
PlainSkipClass == <<NoDir, <<"skipc", "">>>>
PlainNoClass == <<NoDir, <<"nocls", "">>>>
PlainCycA == <<NoDir, <<"cyca", "">>>>
PlainCycB == <<NoDir, <<"cycb", "">>>>
PlainSelfClass == <<NoDir, <<"selfc", "">>>>

ContentOf(name) ==
    IF name = R
    THEN << LineOf("inherit", <<PlainMid, PlainBase>>),
            LineOf("require", <<Path("", G)>>), Line("assign") >>
    ELSE IF name = MidClass
    THEN << LineOf("inherit", <<PlainBase>>), Line("assign") >>
    ELSE IF name = G
    THEN << Line("assign"), Line("func"), Line("text"), Line("close") >>
    ELSE IF name = OpenInc THEN << Line("assign"), Line("func") >>
    ELSE IF name = UnclosedInc THEN << Line("func"), Line("text") >>
    ELSE IF name = ContInc THEN << Line("assign"), Line("cont") >>
    ELSE IF name = SelfInc
    THEN << LineOf("include", <<Path("/b", SelfInc)>>), Line("assign") >>
    ELSE IF name = RelSelfInc
    THEN << LineOf("include", <<Path("", RelSelfInc)>>), Line("assign") >>
    ELSE IF name = OpenRecipe
    THEN << LineOf("inherit", <<PlainBase>>), Line("assign"), Line("func") >>
    ELSE IF name = CycA
    THEN << Line("assign"), LineOf("include", <<Path("", CycB)>>) >>
    ELSE IF name = CycB
    THEN << LineOf("include", <<Path("", CycA)>>), Line("assign") >>
    ELSE IF name = CycRecipe
    THEN << LineOf("inherit", <<PlainCycA>>), Line("assign") >>
    ELSE IF name = CycClassA
    THEN << LineOf("inherit", <<PlainCycB>>), Line("assign") >>
    ELSE IF name = CycClassB
    THEN << LineOf("inherit", <<PlainCycA>>) >>
    ELSE IF name = SelfClassRecipe
    THEN << LineOf("inherit", <<PlainSelfClass>>), Line("assign") >>
    ELSE IF name = SelfClass
    THEN << LineOf("inherit", <<PlainSelfClass>>), Line("assign") >>
    ELSE IF name = SkipRecipe
    THEN << Line("assign"), Line("skip"), Line("assign") >>
    ELSE IF name = SkipInc THEN << Line("assign"), Line("skip") >>
    ELSE IF name = SkipUser
    THEN << LineOf("require", <<Path("", SkipInc)>>), Line("assign") >>
    ELSE IF name = SkipConf THEN << Line("skip") >>
    ELSE IF name = SkipClass
    THEN << LineOf("include", <<Path("/b", SkipConf)>>) >>
    ELSE IF name = SkipClassRecipe
    THEN << LineOf("inherit", <<PlainSkipClass>>), Line("assign") >>
    ELSE IF name \in {BadInc, BadConf}
    THEN << Line("assign"), LineOf("require", <<Path("", Missing)>>) >>
    ELSE IF name = F
    THEN << Line("assign"), LineOf("include", <<Path("", G)>>),
            Line("cont"), Line("text") >>
    ELSE << Line("assign") >>

\* what open(p).readlines() gives
Content(p) ==
    IF p[2] \in {LinesInc, LinesConf} THEN flines ELSE ContentOf(p[2])

(***************************************************************************)
(* Errors of the parser.                                                   *)
(***************************************************************************)
\* ParseError(msg, filename)
ParseError(msg, fn) == <<"ParseError", fn, msg>>
ErrNotBitBake(fn) == ParseError("not a BitBake file", fn)
ErrUnparsedResidue(fn) == ParseError("Unparsed lines", fn)
ErrUnclosedBody(fn) == ParseError("Unparsed lines from unclosed function", fn)
ErrNeverClosed(fn) == ParseError("Shell function is never closed", fn)
ErrLeftover(fn) == ParseError("Leftover unparsed (incomplete?) data", fn)
ErrUnparsedLine(fn) == ParseError("unparsed line", fn)
ErrCouldNotInherit(fn) == ParseError("Could not inherit file", fn)
ErrCouldNotInclude(fn) == ParseError("Could not include file", fn)
\* RecursionError: the interpreter's limit on nested calls
ErrRecursion == <<"RecursionError", "", "maximum recursion depth exceeded">>
\* bb.parse.SkipRecipe
ErrSkip == <<"SkipRecipe", "", "">>
\* bb.fatal(...): the message is logged and BBHandledException is raised
ErrFatal(fn) == <<"BBHandledException", fn, "fatal">>
\* s[0] or s[-1] of an empty string
ErrIndex == <<"IndexError", "", "string index out of range">>

IsIOError(e) == e[1] = "IOError"
IsParseError(e) == e[1] = "ParseError"

(***************************************************************************)
(* The feeders.  A statement is [kind, arg, fn, force]; a statement tree   *)
(* is [id, stmts], id being the identity of the StatementGroup object.     *)
(***************************************************************************)
Stmt(kind, arg, fn, force) == [kind |-> kind, arg |-> arg, fn |-> fn, force |-> force]

NoTree == [id |-> 0, stmts |-> <<>>]

\* ConfHandler.feeder(lineno, s, fn, statements); arg holds the file
\* names of an include or require line
ConfHandler_feeder(stmts, s, arg, fn) ==
    IF Classify(s) = "assign"
    THEN [stmts |-> Append(stmts, Stmt("data", s, fn, FALSE)), err |-> NoErr]
    ELSE IF Classify(s) = "include"
    THEN [stmts |-> Append(stmts, Stmt("include", arg, fn, FALSE)), err |-> NoErr]
    ELSE IF Classify(s) = "require"
    THEN [stmts |-> Append(stmts, Stmt("include", arg, fn, TRUE)), err |-> NoErr]
    ELSE [stmts |-> stmts, err |-> ErrUnparsedLine(fn)]

\* lines 397-477 of BBHandler.feeder: the residue and the line are joined
\* and matched
FeedJoined(st, stmts, s, arg, fn) ==
    LET st1 == [st EXCEPT !.residue = <<>>]
    IN  IF s = <<>> \/ StartsHash(s)
        THEN [st |-> st1, stmts |-> stmts, err |-> NoErr]
        ELSE IF Classify(s) = "func"
        THEN [st |-> [st1 EXCEPT !.infunc = <<"do_foo", fn>>],
              stmts |-> stmts, err |-> NoErr]
        ELSE IF Classify(s) = "inherit"
        THEN [st |-> st1,
              stmts |-> Append(stmts, Stmt("inherit", arg, fn, FALSE)),
              err |-> NoErr]
        ELSE LET c == ConfHandler_feeder(stmts, s, arg, fn)
             IN  [st |-> st1, stmts |-> c.stmts, err |-> c.err]

\* mutant: any line that starts with a closing brace closes the function
ClosesFunction_AnyBrace(s) == s # <<>> /\ s[1] = "}"

\* line 363: s == '}'
ClosesFunction(s) == s = <<"}">>

\* BBHandler.feeder(lineno, s, fn, root, statements), s being the line
\* without its trailing white space (get_statements, line 266): the
\* globals and the statements afterwards, and the error raised.  The
\* method node holds the body it was made with (lines 364-365).
feeder(st, stmts, line, fn) ==
    LET s == rstrip(line.txt)
    IN  IF st.infunc # <<>>
        THEN IF ClosesFunction(s)
             THEN [st |-> [st EXCEPT !.infunc = <<>>, !.body = <<>>],
                   stmts |-> Append(stmts, Stmt("method",
                                                Append(st.body, <<>>),
                                                fn, FALSE)),
                   err |-> NoErr]
             ELSE [st |-> [st EXCEPT !.body = Append(st.body, s)],
                   stmts |-> stmts, err |-> NoErr]
        ELSE IF st.residue # <<>> /\ st.residue[1] = <<>>
        THEN [st |-> st, stmts |-> stmts, err |-> ErrIndex]
        ELSE IF st.residue # <<>> /\ StartsHash(s) # StartsHash(st.residue[1])
        THEN [st |-> st, stmts |-> stmts, err |-> ErrFatal(fn)]
        ELSE IF EndsBackslash(s)
        THEN [st |-> [st EXCEPT !.residue = Append(st.residue, DropLast(s))],
              stmts |-> stmts, err |-> NoErr]
        ELSE FeedJoined(st, stmts, StrJoin(st.residue) \o s, line.arg, fn)

\* lines 265-267 of get_statements: every line goes to the feeder
RECURSIVE FeedAll(_, _, _, _)
FeedAll(st, stmts, lines, fn) ==
    IF lines = <<>> THEN [st |-> st, stmts |-> stmts, err |-> NoErr]
    ELSE Bind(feeder(st, stmts, Head(lines), fn),
              LAMBDA f : IF f.err # NoErr THEN f
                         ELSE FeedAll(f.st, f.stmts, Tail(lines), fn))

\* mutant: no file has its tree stored
Cacheable_Never(filename) == FALSE

\* line 278
Cacheable(filename) == filename[2][2] \in {".bbclass", ".inc"}

\* history: the tree of the first get_statements call that returned one
FirstBuilt(b, path, tree) ==
    IF path \in DOMAIN b THEN b ELSE Put(b, path, tree.id)

\* lines 273-280 of get_statements, f being what the feeder left
StatementsParsed(f, filename, absolute_filename) ==
    LET statements == [id |-> f.st.trees, stmts |-> f.stmts]
    IN  IF f.err # NoErr
        THEN [st |-> f.st, tree |-> NoTree, err |-> f.err]
        ELSE IF f.st.residue # <<>>
        THEN [st |-> f.st, tree |-> NoTree, err |-> ErrUnparsedResidue(filename)]
        ELSE IF f.st.body # <<>>
        THEN [st |-> f.st, tree |-> NoTree, err |-> ErrUnclosedBody(filename)]
        ELSE [st |-> [f.st EXCEPT
                        !.cs = IF Cacheable(filename)
                               THEN Put(@, absolute_filename, statements)
                               ELSE @,
                        !.built = FirstBuilt(@, absolute_filename, statements)],
              tree |-> statements, err |-> NoErr]

\* get_statements(filename, absolute_filename, base_name)
get_statements(st, filename, absolute_filename) ==
    IF absolute_filename \in DOMAIN st.cs
    THEN [st |-> [st EXCEPT !.built = FirstBuilt(@, absolute_filename,
                                                 st.cs[absolute_filename])],
          tree |-> st.cs[absolute_filename], err |-> NoErr]
    ELSE IF ~IsFile(absolute_filename)
    THEN [st |-> st, tree |-> NoTree, err |-> ErrNotFound]
    ELSE Bind([st EXCEPT !.opened = Append(@, Real(absolute_filename)),
                         !.trees = @ + 1],
              LAMBDA st1 :
                Bind(FeedAll(st1, <<>>, Content(Real(absolute_filename)),
                             filename),
                     LAMBDA f : StatementsParsed(f, filename,
                                                 absolute_filename)))

\* the while loop of _get_conf_statements (lines 324-332): s is joined
\* with the lines after it while it ends in a backslash; gives the logical
\* line and the lines not read
RECURSIVE ConfJoin(_, _, _)
ConfJoin(s, rest, fn) ==
    IF s = <<>> THEN [s |-> s, rest |-> rest, err |-> ErrIndex]
    ELSE IF ~EndsBackslash(s) \/ rest = <<>>
    THEN [s |-> s, rest |-> rest, err |-> NoErr]
    ELSE IF ~StartsHash(rstrip(Head(rest).txt)) /\ StartsHash(s)
    THEN [s |-> s, rest |-> rest, err |-> ErrFatal(fn)]
    ELSE ConfJoin(DropLast(s) \o rstrip(Head(rest).txt), Tail(rest), fn)

\* lines 333-335: a comment is skipped, any other line goes to the feeder
ConfFeedLine(stmts, s, arg, fn) ==
    IF StartsHash(s) THEN [stmts |-> stmts, err |-> NoErr]
    ELSE ConfHandler_feeder(stmts, s, arg, fn)

\* the loop of _get_conf_statements (lines 319-335)
RECURSIVE ConfFeedAll(_, _, _)
ConfFeedAll(stmts, lines, fn) ==
    IF lines = <<>> THEN [stmts |-> stmts, err |-> NoErr]
    ELSE IF IsBlank(Head(lines).txt) THEN ConfFeedAll(stmts, Tail(lines), fn)
    ELSE Bind(ConfJoin(rstrip(Head(lines).txt), Tail(lines), fn),
           LAMBDA j :
             IF j.err # NoErr THEN [stmts |-> stmts, err |-> j.err]
             ELSE Bind(ConfFeedLine(stmts, j.s, Head(lines).arg, fn),
                    LAMBDA c : IF c.err # NoErr THEN c
                               ELSE ConfFeedAll(c.stmts, j.rest, fn)))

ConfAstCacheDisabled == "BB_OPT_DISABLE_CONF_AST_CACHE" \in env

\* lines 338-347 of _get_conf_statements, c being what the feeder left
ConfStatementsParsed(st1, c, key) ==
    LET statements == [id |-> st1.trees, stmts |-> c.stmts]
    IN  IF c.err # NoErr
        THEN [st |-> st1, tree |-> NoTree, err |-> c.err]
        ELSE [st |-> [st1 EXCEPT
                        !.ccs = IF ConfAstCacheDisabled THEN @
                                ELSE Put(@, key, statements),
                        !.tot = Miss(@, "conf_ast"),
                        !.tm = Timed(@, "conf_ast_parse")],
              tree |-> statements, err |-> NoErr]

\* _get_conf_statements(abs_fn, baseconfig)
_get_conf_statements(st, abs_fn, baseconfig) ==
    LET key == <<abs_fn, baseconfig>>
    IN  IF ~ConfAstCacheDisabled /\ key \in DOMAIN st.ccs
        THEN [st |-> [st EXCEPT !.tot = Hit(@, "conf_ast")],
              tree |-> st.ccs[key], err |-> NoErr]
        ELSE IF ~IsFile(abs_fn)
        THEN [st |-> st, tree |-> NoTree, err |-> ErrNotFound]
        ELSE Bind([st EXCEPT !.opened = Append(@, Real(abs_fn)),
                             !.trees = @ + 1],
                  LAMBDA st1 :
                    Bind(ConfFeedAll(<<>>, Content(Real(abs_fn)), abs_fn),
                         LAMBDA c : ConfStatementsParsed(st1, c, key)))

(***************************************************************************)
(* Handler dispatch, the two handle functions, include and inherit.  They  *)
(* call each other: a statement tree is evaluated inside handle, and the   *)
(* evaluation of an include or inherit statement calls handle again.       *)
(* depth counts the handle calls in progress.                              *)
(***************************************************************************)
SupportsCacheDisabled == "BB_OPT_DISABLE_SUPPORTS_CACHE" \in env

\* a file whose whole name is ".conf": os.path.splitext gives it the
\* root ".conf" and the extension ""
DotConf == <<".conf", "">>

\* ConfHandler.supports(fn, d): the last five characters of fn are ".conf"
ConfHandler_supports(fn) == fn[2][2] = ".conf" \/ fn[2] = DotConf

\* BBHandler.supports(fn, d): os.path.splitext(fn)[-1] is one of three
BBHandler_supports(fn) == fn[2][2] \in {".bb", ".bbclass", ".inc"}

\* h['supports'](fn, d) over the handlers list, ConfHandler being
\* registered first
SupportingHandler(fn) ==
    IF ConfHandler_supports(fn) THEN "ConfHandler"
    ELSE IF BBHandler_supports(fn) THEN "BBHandler"
    ELSE "None"

\* _get_handler(fn, data)
_get_handler(st, fn) ==
    LET ext == fn[2][2]
    IN  IF ~SupportsCacheDisabled /\ ext \in DOMAIN st.sup
        THEN [st |-> [st EXCEPT !.tot = Hit(@, "supports")], h |-> st.sup[ext]]
        ELSE [st |-> [st EXCEPT !.sup = IF SupportsCacheDisabled THEN @
                                        ELSE Put(@, ext, SupportingHandler(fn)),
                                !.tot = Miss(@, "supports")],
              h |-> SupportingHandler(fn)]

\* os.path.join(d, item) for a directory d
JoinDir(d, item) ==
    IF IsAbs(item) THEN item
    ELSE IF item[1][2] = "" THEN <<d, item[2]>>
    ELSE <<<<d[1], item[1][2]>>, item[2]>>

\* bb.utils.which("%s:%s" % (dname, bbpath), fn, history=True)
RECURSIVE WhichDirs(_, _, _)
WhichDirs(dirs, item, hist) ==
    IF dirs = <<>> THEN <<NoFile, hist>>
    ELSE LET next == JoinDir(Head(dirs), item)
         IN  IF Exists(next)
             THEN <<Real(next), Append(hist, next)>>
             ELSE WhichDirs(Tail(dirs), item, Append(hist, next))

IncludeLruDisabled == "BB_OPT_DISABLE_INCLUDE_LRU" \in env
IncludeIndexDisabled == "BB_OPT_DISABLE_INCLUDE_INDEX" \in env

\* lines 98-100: the include LRU answers
IncludeCached(st, key) ==
    ~IncludeLruDisabled /\ key \in Range(st.inco) /\ key \in DOMAIN st.inc

\* lines 135-142: store the answer, evict the oldest key
IncludeStore(st, key, val) ==
    LET inc1  == Put(st.inc, key, val)
        inco1 == Append(st.inco, key)
    IN  IF Len(inco1) > IncludeResolveMax
        THEN [st EXCEPT !.inc = Del(inc1, Head(inco1)), !.inco = Tail(inco1),
                        !.tot = Evict(@, "include")]
        ELSE [st EXCEPT !.inc = inc1, !.inco = inco1]

\* line 116: use_index
IncludeUsesIndex(fn) ==
    ~HasSlash(fn[2]) /\ fn[1] = NoDir /\ ~IncludeIndexDisabled

\* lines 108-134: the search when the LRU has no answer
IncludeSearch(st, dname, fn) ==
    IF IncludeUsesIndex(fn)
    THEN Bind(_include_index_resolve(st, dname, BBPATH, fn[2]),
              LAMBDA r :
                [st |-> [r.st EXCEPT
                           !.tot = IF r.ret # NoFile
                                   THEN Hit(@, "include_index")
                                   ELSE Miss(@, "include_index"),
                           !.tm = Timed(@, "include")],
                 val |-> <<r.ret, r.attempts>>])
    ELSE [st |-> [st EXCEPT
                    !.tot = IF ~HasSlash(fn[2]) /\ fn[1] = NoDir
                            THEN Miss(@, "include_index") ELSE @,
                    !.tm = Timed(@, "include")],
          val |-> WhichDirs(<<dname>> \o BBPathDirs(BBPATH), fn, <<>>)]

\* lines 107-144: search, store the answer in the LRU, count the miss
IncludeMissed(st, key, dname, fn) ==
    Bind(IncludeSearch(st, dname, fn),
         LAMBDA s :
           Bind(IF IncludeLruDisabled THEN s.st
                ELSE IncludeStore(s.st, key, s.val),
                LAMBDA st3 : [st |-> [st3 EXCEPT !.tot = Miss(@, "include")],
                              val |-> s.val]))

\* lines 145-150: the duplicate check and the marks
IncludeMarks(st, val, fn) ==
    Bind(IF val[1] # NoFile
         THEN [st EXCEPT !.mc = check_dependency(st, val[1])[1]] ELSE st,
         LAMBDA st4 :
           Bind(MarkAll([deps |-> st4.deps, mc |-> st4.mc], val[2]),
                LAMBDA m : [st |-> [st4 EXCEPT !.deps = m.deps, !.mc = m.mc],
                            fn |-> IF val[1] # NoFile THEN val[1] ELSE fn]))

\* lines 83-150 of include_single_file: a relative name is resolved and
\* its attempts are marked; gives the state and the name handle is called
\* with
IncludeResolve(st, parentfn, fn) ==
    LET dname == parentfn[1]
        key   == <<fn, dname, BBPATH>>
    IN  Bind(IF ~IncludeLruDisabled /\ key \in Range(st.inco)
             THEN [st EXCEPT !.inco = Append(RemoveFirst(@, key), key)]
             ELSE st,
             LAMBDA st1 :
               Bind(IF IncludeCached(st, key)
                    THEN [st |-> [st1 EXCEPT !.tot = Hit(@, "include")],
                          val |-> st.inc[key]]
                    ELSE IncludeMissed(st1, key, dname, fn),
                    LAMBDA s : IncludeMarks(s.st, s.val, fn)))

RECURSIVE handle(_, _, _, _)
RECURSIVE BBHandler_handle(_, _, _, _)
RECURSIVE ConfHandler_handle(_, _, _, _)
RECURSIVE include_single_file(_, _, _, _, _)
RECURSIVE include(_, _, _, _, _)
\* data.inchistory.include(fn) as a context manager: entering the with
\* block opens the scope of fn
ScopeEnter(st, fn) ==
    [st EXCEPT !.inch = Append(@, fn), !.scopes = Append(@, fn)]

\* mutant: the scope is closed only when the handler returns normally
ScopeExit_NormalOnly(r) ==
    IF r.err = NoErr
    THEN [r EXCEPT !.st.inch = SubSeq(@, 1, Len(@) - 1)]
    ELSE r

\* leaving the with block, by return or by exception, closes the scope
ScopeExit(r) == [r EXCEPT !.st.inch = SubSeq(@, 1, Len(@) - 1)]

RECURSIVE inherit(_, _, _, _, _, _)
RECURSIVE EvalStatements(_, _, _)

\* lines 83-152: the name handle is called with
IncludeName(st, parentfn, fn) ==
    IF ~IsAbs(fn) THEN IncludeResolve(st, parentfn, fn)
    ELSE [st |-> [st EXCEPT !.mc = check_dependency(st, fn)[1]], fn |-> fn]

\* mutant: a missing file is an error for include too
IncludeHandled_Raise(h, parentfn, error_out) ==
    IF IsIOError(h.err)
    THEN [st |-> h.st, err |-> ErrCouldNotInclude(parentfn)]
    ELSE h

\* lines 154-165: a missing file is an error only for require
IncludeHandled(h, parentfn, error_out) ==
    IF IsIOError(h.err)
    THEN [st |-> h.st,
          err |-> IF error_out THEN ErrCouldNotInclude(parentfn) ELSE NoErr]
    ELSE h

\* A CHOOSE from a one-element set names a value that is computed once:
\* CHOOSE out \in {e(x) : x \in {v}} : TRUE is e(v), v being evaluated once.

\* mutant: the guard against including oneself is gone
include_single_file_NoGuard(st, parentfn, fn, error_out, depth) ==
    CHOOSE out \in
      {(CHOOSE o \in {IncludeHandled(h, parentfn, error_out) :
                        h \in {handle(pre.st, pre.fn, 1, depth + 1)}} : TRUE)
         : pre \in {IncludeName(st, parentfn, fn)}} : TRUE

\* include_single_file(parentfn, fn, lineno, data, error_out)
include_single_file(st, parentfn, fn, error_out, depth) ==
    IF parentfn = fn THEN [st |-> st, err |-> NoErr]
    ELSE CHOOSE out \in
           {(CHOOSE o \in {IncludeHandled(h, parentfn, error_out) :
                             h \in {handle(pre.st, pre.fn, 1, depth + 1)}} : TRUE)
              : pre \in {IncludeName(st, parentfn, fn)}} : TRUE

\* ConfHandler.include(parentfn, fns, lineno, data, error_out)
include(st, parentfn, fns, error_out, depth) ==
    IF fns = <<>> THEN [st |-> st, err |-> NoErr]
    ELSE CHOOSE out \in
           {IF r.err # NoErr THEN r
            ELSE include(r.st, parentfn, Tail(fns), error_out, depth)
              : r \in {include_single_file(st, parentfn, Head(fns), error_out,
                                           depth)}} : TRUE

\* mutant: the class is handled whether or not __inherit_cache lists it
InheritListed_Never(icache, file) == FALSE

\* mutant: only the class listed last counts as listed
InheritListed_LastOnly(icache, file) ==
    icache # <<>> /\ icache[Len(icache)] = file

\* line 245: file in __inherit_cache
InheritListed(icache, file) == file \in Range(icache)

\* lines 236-238: the attempts other than the resolved path are marked
InheritMarks(st, val) ==
    Bind(MarkAll([deps |-> st.deps, mc |-> st.mc],
                 SelectSeq(val[2], LAMBDA af : af # val[1])),
         LAMBDA m : [st EXCEPT !.deps = m.deps, !.mc = m.mc])

\* lines 246-252 with the class put at the front of __inherit_cache
InheritHandle_Prepend(st1, file, fn, depth) ==
    CHOOSE out \in
      {IF IsIOError(h.err) THEN [st |-> h.st, err |-> ErrCouldNotInherit(fn)]
       ELSE h
         : h \in {handle([st1 EXCEPT !.icache = <<file>> \o @,
                                     !.inherited = Append(@, file)],
                         file, 1, depth + 1)}} : TRUE

\* lines 246-252 of inherit: the class is listed in __inherit_cache and
\* handled, an IOError becoming a ParseError
InheritHandle(st1, file, fn, depth) ==
    CHOOSE out \in
      {IF IsIOError(h.err) THEN [st |-> h.st, err |-> ErrCouldNotInherit(fn)]
       ELSE h
         : h \in {handle([st1 EXCEPT !.icache = Append(@, file),
                                     !.inherited = Append(@, file)],
                         file, 1, depth + 1)}} : TRUE

\* BBHandler.inherit_defer(expression, fn, lineno, d)
inherit_defer(st, expression, fn, lineno) ==
    [st EXCEPT !.definh = Append(@, <<expression, fn, lineno>>)]

\* the test of line 230 without its look at the deferred argument
IsDeferred_IgnoreFlag(st, file, deferred) == file \in st.defer

\* the test of line 230: the class is put off
IsDeferred(st, file, deferred) == ~deferred /\ file \in st.defer

\* BBHandler.inherit(files, fn, lineno, d, deferred)
inherit(st, files, fn, lineno, deferred, depth) ==
    IF files = <<>> THEN [st |-> st, err |-> NoErr]
    ELSE IF IsDeferred(st, Head(files), deferred)
    THEN inherit(inherit_defer(st, Head(files), fn, lineno), Tail(files), fn,
                 lineno, deferred, depth)
    ELSE CHOOSE out \in
           {(CHOOSE o \in
               {IF r.val[1] = NoFile \/ ~Exists(r.val[1])
                THEN [st |-> st1, err |-> ErrCouldNotInherit(fn)]
                ELSE IF InheritListed(st1.icache, r.val[1])
                THEN inherit(st1, Tail(files), fn, lineno, deferred, depth)
                ELSE (CHOOSE x \in
                        {IF h.err # NoErr THEN h
                         ELSE inherit(h.st, Tail(files), fn, lineno, deferred,
                                      depth)
                           : h \in {InheritHandle(st1, r.val[1], fn, depth)}}
                        : TRUE)
                  : st1 \in {InheritMarks(r.st, r.val)}} : TRUE)
              : r \in {_resolve_inherit_file(st, Head(files), BBPATH,
                                             BBCLASSTYPE)}} : TRUE

\* the line number of a statement, which the feeders here do not keep
NoLine == 0

\* the evaluation of one statement: an include statement calls
\* ConfHandler.include, an inherit statement calls BBHandler.inherit
EvalStatement(st, s, depth) ==
    IF s.kind = "include" THEN include(st, s.fn, s.arg, s.force, depth)
    ELSE IF s.kind = "inherit"
    THEN inherit(st, s.arg, s.fn, NoLine, FALSE, depth)
    ELSE IF s.kind = "data" /\ "!" \in Range(s.arg)
    THEN [st |-> st, err |-> ErrSkip]
    ELSE [st |-> st, err |-> NoErr]

\* statements.eval(d): the statements in order
EvalStatements(st, stmts, depth) ==
    IF stmts = <<>> THEN [st |-> st, err |-> NoErr]
    ELSE CHOOSE out \in
           {IF r.err # NoErr THEN r
            ELSE EvalStatements(r.st, Tail(stmts), depth)
              : r \in {EvalStatement(st, Head(stmts), depth)}} : TRUE

\* lines 284-304 of BBHandler.handle
BBHandleEnter(st, fn) ==
    [st EXCEPT
       !.body = <<>>, !.infunc = <<>>, !.residue = <<>>,
       !.classname = IF fn[2][2] = ".bbclass" THEN fn[2][1] ELSE "",
       !.icache = IF fn[2][2] = ".bbclass" /\ fn \notin Range(@)
                  THEN Append(@, fn) ELSE @]

\* history: a handle function returns; kind is "map" for { "" : d },
\* "finalized" for ast.multi_finalize(fn, d) and "datastore" for d; file0
\* is the value FILE had when the call began
Returned(st, fn, inc, abs_fn, file0, kind) ==
    [st EXCEPT !.returned = Append(@, [fn |-> fn, include |-> inc,
                                       abs_fn |-> abs_fn, file0 |-> file0,
                                       kind |-> kind, FILE |-> st.FILE,
                                       SKIPPED |-> st.SKIPPED])]

\* lines 332-348 of BBHandler.handle
BBHandleChecks(st, fn, inc, abs_fn, oldfile, file0) ==
    IF st.infunc # <<>>
    THEN [st |-> st, err |-> ErrNeverClosed(st.infunc[2])]
    ELSE IF st.residue # <<>> THEN [st |-> st, err |-> ErrLeftover(fn)]
    ELSE IF fn[2][2] # ".bbclass" /\ inc = 0
    THEN [st |-> Returned(st, fn, inc, abs_fn, file0, "finalized"),
          err |-> NoErr]
    ELSE IF fn[2][2] # ".bbclass" /\ oldfile # NoFile /\ abs_fn # oldfile
    THEN [st |-> Returned([st EXCEPT !.FILE = oldfile], fn, inc, abs_fn,
                          file0, "datastore"),
          err |-> NoErr]
    ELSE [st |-> Returned(st, fn, inc, abs_fn, file0, "datastore"),
          err |-> NoErr]

\* lines 320-348 of BBHandler.handle, e being what the evaluation left
BBHandleLeave(e, fn, inc, abs_fn, oldfile, file0) ==
    IF e.err = ErrSkip
    THEN IF inc = 0
         THEN [st |-> Returned([e.st EXCEPT !.SKIPPED = TRUE], fn, inc,
                               abs_fn, file0, "map"),
               err |-> NoErr]
         ELSE BBHandleChecks([e.st EXCEPT !.SKIPPED = TRUE], fn, inc, abs_fn,
                             oldfile, file0)
    ELSE IF e.err # NoErr THEN e
    ELSE BBHandleChecks(e.st, fn, inc, abs_fn, oldfile, file0)

\* lines 314-321 of BBHandler.handle
BBHandleParsed(st, fn, inc, abs_fn, oldfile, depth) ==
    CHOOSE out \in
      {IF g.err # NoErr THEN [st |-> g.st, err |-> g.err]
       ELSE (CHOOSE o \in
               {BBHandleLeave(e, fn, inc, abs_fn, oldfile, st.FILE)
                  : e \in {EvalStatements(
                             IF fn[2][2] # ".bbclass" /\ abs_fn # oldfile
                             THEN [g.st EXCEPT !.FILE = abs_fn] ELSE g.st,
                             g.tree.stmts, depth)}} : TRUE)
         : g \in {get_statements(st, fn, abs_fn)}} : TRUE

\* BBHandler.handle(fn, d, include)
BBHandler_handle(st0, fn, inc, depth) ==
    CHOOSE out \in
      {IF r.err # NoErr THEN [st |-> r.st, err |-> r.err]
       ELSE BBHandleParsed(r.st, fn, inc, r.ret,
                           IF inc # 0 THEN st0.FILE ELSE NoFile, depth)
         : r \in {resolve_file(BBHandleEnter(st0, fn), fn, BBPATH)}} : TRUE

\* lines 376-388 of ConfHandler.handle, e being what the evaluation left
ConfHandleLeave(e, fn, inc, abs_fn, oldfile, file0) ==
    IF e.err # NoErr THEN e
    ELSE [st |-> Returned([e.st EXCEPT
                             !.tm = Timed(@, "conf_eval"),
                             !.FILE = IF oldfile # NoFile THEN oldfile ELSE @],
                          fn, inc, abs_fn, file0, "datastore"),
          err |-> NoErr]

\* lines 367-382 of ConfHandler.handle
ConfHandleParsed(g, fn, inc, abs_fn, oldfile, depth) ==
    IF g.err # NoErr THEN [st |-> g.st, err |-> g.err]
    ELSE CHOOSE out \in
           {ConfHandleLeave(e, fn, inc, abs_fn, oldfile, g.st.FILE)
              : e \in {EvalStatements([g.st EXCEPT !.FILE = abs_fn],
                                      g.tree.stmts, depth)}} : TRUE

\* lines 364-365 of ConfHandler.handle: the file is resolved and parsed
ConfHandleOpen(st, fn) ==
    CHOOSE out \in
      {IF r.err # NoErr
       THEN [st |-> r.st, err |-> r.err, tree |-> NoTree, ret |-> NoFile]
       ELSE (CHOOSE o \in
               {[st |-> g.st, err |-> g.err, tree |-> g.tree, ret |-> r.ret]
                  : g \in {_get_conf_statements(r.st, r.ret, FALSE)}} : TRUE)
         : r \in {resolve_file(st, fn, BBPATH)}} : TRUE

\* ConfHandler.handle(fn, data, include), the second definition (line 350)
ConfHandler_handle(st, fn, inc, depth) ==
    CHOOSE out \in
      {ConfHandleParsed(g, fn, inc, g.ret,
                        IF inc = 0 THEN NoFile ELSE st.FILE, depth)
         : g \in {ConfHandleOpen(st, fn)}} : TRUE

\* bb.parse.handle(fn, data, include)
handle(st, fn, inc, depth) ==
    CHOOSE out \in
      {IF depth > MaxDepth
       THEN [st |-> [g.st EXCEPT !.handled = Append(@, fn)], err |-> ErrRecursion]
       ELSE IF g.h = "None"
       THEN [st |-> [g.st EXCEPT !.handled = Append(@, fn)], err |-> ErrNotBitBake(fn)]
       ELSE IF g.h = "BBHandler"
       THEN ScopeExit(BBHandler_handle(
                ScopeEnter([g.st EXCEPT !.handled = Append(@, fn)], fn),
                fn, inc, depth))
       ELSE ScopeExit(ConfHandler_handle(
                ScopeEnter([g.st EXCEPT !.handled = Append(@, fn)], fn),
                fn, inc, depth))
         : g \in {_get_handler(st, fn)}} : TRUE

(***************************************************************************)
(* The resolver as a state machine: calls of resolve_file and              *)
(* mark_dependency on one datastore, d.setVar("BBPATH"), and changes of    *)
(* the file system made by other processes.                                *)
(***************************************************************************)
\* the program state the operations read and write, as one record
ProgState ==
    [deps |-> depends, mc |-> mtime_cache, rc |-> resolve_cache,
     ro |-> resolve_order, tot |-> totals, tm |-> times,
     cic |-> class_index_cache, cio |-> class_index_order,
     iic |-> include_index_cache, iio |-> include_index_order,
     irc |-> inherit_resolved_cache, iro |-> inherit_resolved_order,
     cs |-> cached_statements, ccs |-> conf_statements_cache,
     sup |-> supports_cache, inc |-> include_resolve_cache,
     inco |-> include_resolve_order, infunc |-> infunc, body |-> body,
     residue |-> residue, classname |-> classname, FILE |-> FILE,
     icache |-> inherit_cache, handled |-> handled, opened |-> opened,
     trees |-> trees, built |-> built, inherited |-> inherited,
     SKIPPED |-> SKIPPED, returned |-> returned,
     defer |-> BB_DEFER_BBCLASSES, definh |-> BBDEFINHERITS,
     inch |-> inchistory, scopes |-> scopes]

SetProgState(st) ==
    /\ depends' = st.deps
    /\ mtime_cache' = st.mc
    /\ resolve_cache' = st.rc
    /\ resolve_order' = st.ro
    /\ totals' = st.tot
    /\ times' = st.tm
    /\ class_index_cache' = st.cic
    /\ class_index_order' = st.cio
    /\ include_index_cache' = st.iic
    /\ include_index_order' = st.iio
    /\ inherit_resolved_cache' = st.irc
    /\ inherit_resolved_order' = st.iro
    /\ cached_statements' = st.cs
    /\ conf_statements_cache' = st.ccs
    /\ supports_cache' = st.sup
    /\ include_resolve_cache' = st.inc
    /\ include_resolve_order' = st.inco
    /\ infunc' = st.infunc
    /\ body' = st.body
    /\ residue' = st.residue
    /\ classname' = st.classname
    /\ FILE' = st.FILE
    /\ inherit_cache' = st.icache
    /\ handled' = st.handled
    /\ opened' = st.opened
    /\ trees' = st.trees
    /\ built' = st.built
    /\ inherited' = st.inherited
    /\ SKIPPED' = st.SKIPPED
    /\ returned' = st.returned
    /\ BB_DEFER_BBCLASSES' = st.defer
    /\ BBDEFINHERITS' = st.definh
    /\ inchistory' = st.inch
    /\ scopes' = st.scopes

\* no thread is inside a call of the metrics module
MetricsIdle == UNCHANGED metricsVars

\* the index-level state and history a resolver step leaves alone
IndexIdle == UNCHANGED <<lastI, fresh, used, changedCls, indexCalls>>

\* the parser's caches, globals and datastore variables
parseState == <<cached_statements, conf_statements_cache, supports_cache,
                include_resolve_cache, include_resolve_order, infunc, body,
                residue, classname, FILE, inherit_cache, SKIPPED, returned,
                handled, opened, trees, built, inherited,
                BB_DEFER_BBCLASSES, BBDEFINHERITS, inchistory, scopes>>

\* the parse-level history a resolver or index step leaves alone
ParseIdle == UNCHANGED <<lastP, parseCalls, flines>> /\ MetricsIdle

\* the caches of the directory indexes and of the inherit memo
indexCaches == <<class_index_cache, class_index_order, include_index_cache,
                 include_index_order, inherit_resolved_cache,
                 inherit_resolved_order>>

NoIndexCall == [op |-> "none", idx |-> "none", key |-> <<>>, rebuilt |-> FALSE,
                differed |-> FALSE, wasFresh |-> FALSE, keysUsed |-> 0,
                origfile |-> NoFile, val |-> <<NoFile, <<>>>>, hit |-> FALSE,
                afterChange |-> FALSE, bp |-> <<>>]

NoParseCall == [op |-> "none", fn |-> NoFile, parentfn |-> NoFile,
                err |-> NoErr, tree |-> 0, first |-> 0, read |-> FALSE,
                classes |-> <<>>, listed |-> FALSE,
                nhandled |-> 0, file0 |-> NoFile, deps0 |-> <<>>,
                stmts |-> <<>>, residue0 |-> <<>>, nreturned |-> 0,
                error_out |-> FALSE, icache0 |-> <<>>, skipped0 |-> FALSE,
                deferred |-> FALSE, lineno |-> 0, ndefinh |-> 0,
                nscopes |-> 0, h |-> "None"]

\* history: what a parse-level call found when it started
ParseCall(st) == [NoParseCall EXCEPT !.nhandled = Len(st.handled),
                                    !.file0 = st.FILE, !.deps0 = st.deps,
                                    !.residue0 = st.residue,
                                    !.nreturned = Len(st.returned),
                                    !.icache0 = st.icache,
                                    !.skipped0 = st.SKIPPED,
                                    !.ndefinh = Len(st.definh),
                                    !.nscopes = Len(st.scopes)]

NoCall == [op |-> "none", fn |-> NoFile, bp |-> <<>>, ret |-> NoFile,
           err |-> NoErr, attempts |-> <<>>, hit |-> FALSE]

\* the keys in order of last access, after an access to key
Touched(l, key) == Append(RemoveFirst(l, key), key)

\* the paths resolve_file and mark_dependency are called with
RelNames == {Path("", n) : n \in Names}
ResolveTargets == RelNames \cup {Path("/b", F)}
MarkTargets == {Path("/b", G), Path(".", F)}
\* the files other processes create, rewrite and delete
ChangedPaths == {Path("/a", F)}

InitFs ==
    /\ \E a, b \in {0, 1} :
          fs = [p \in AbsPaths |->
                  IF p = Path("/a", F) THEN a
                  ELSE IF p = Path("/b", F) THEN b
                  ELSE IF p = Path("/b", G) THEN 1 ELSE 0]
    /\ nonreg \in {{}, {Path("/b", F)}}
    /\ nonreg # {} => fs[Path("/b", F)] = 1 /\ fs[Path("/a", F)] = 0
    /\ fsChanges = 0
    /\ dstamp = [d \in AbsDirs |-> IF d[2] = "" THEN 1 ELSE 0]

InitParseGlobals ==
    /\ cached_statements = EmptyMap
    /\ conf_statements_cache = EmptyMap
    /\ supports_cache = EmptyMap
    /\ include_resolve_cache = EmptyMap
    /\ include_resolve_order = <<>>
    /\ infunc = <<>>
    /\ body = <<>>
    /\ residue = <<>>
    /\ classname = ""
    /\ FILE = NoFile
    /\ inherit_cache = <<>>
    /\ handled = <<>>
    /\ opened = <<>>
    /\ trees = 0
    /\ built = EmptyMap
    /\ inherited = <<>>
    /\ SKIPPED = FALSE
    /\ returned = <<>>
    /\ lastP = NoParseCall
    /\ parseCalls = 0
    /\ BB_DEFER_BBCLASSES = {}
    /\ BBDEFINHERITS = <<>>
    /\ inchistory = <<>>
    /\ scopes = <<>>
    /\ InitThreads

InitIndexEmpty ==
    /\ class_index_cache = EmptyMap
    /\ class_index_order = <<>>
    /\ include_index_cache = EmptyMap
    /\ include_index_order = <<>>
    /\ inherit_resolved_cache = EmptyMap
    /\ inherit_resolved_order = <<>>
    /\ lastI = NoIndexCall
    /\ fresh = {}
    /\ used = {}
    /\ changedCls = {}
    /\ indexCalls = 0

InitParseEmpty ==
    /\ flines = <<>>
    /\ InitParseGlobals

InitResolver ==
    /\ InitFs
    /\ InitIndexEmpty
    /\ InitParseEmpty
    /\ env \in {{}, {"BB_OPT_DISABLE_RESOLVE_CACHE"}}
    /\ BBPATH \in BBPaths
    /\ markCalls = 0
    /\ depends = <<>>
    /\ mtime_cache = EmptyMap
    /\ resolve_cache = EmptyMap
    /\ resolve_order = <<>>
    /\ totals = ZeroTotals
    /\ times = ZeroTimes
    /\ lastR = NoCall
    /\ seen = {}
    /\ lru = <<>>
    /\ overflows = 0

\* one call resolve_file(fn, d)
ResolveFileCall(fn) ==
    /\ times["resolve_file"] < MaxResolveCalls
    /\ LET r == resolve_file(ProgState, fn, BBPATH)
       IN  /\ SetProgState(r.st)
           /\ lastR' = [op |-> "resolve_file", fn |-> fn, bp |-> BBPATH,
                        ret |-> r.ret, err |-> r.err, attempts |-> r.attempts,
                        hit |-> r.hit]
    /\ seen' = seen \cup {fn}
    /\ IndexIdle
    /\ ParseIdle
    /\ UNCHANGED <<fs, dstamp, nonreg, fsChanges, markCalls, env, BBPATH,
                   lru, overflows>>

\* one call mark_dependency(d, f)
MarkDependencyCall(f) ==
    /\ markCalls < MaxMarkCalls
    /\ LET m == mark_dependency([deps |-> depends, mc |-> mtime_cache], f)
       IN  /\ depends' = m.deps
           /\ mtime_cache' = m.mc
    /\ lastR' = [NoCall EXCEPT !.op = "mark_dependency", !.fn = f]
    /\ markCalls' = markCalls + 1
    /\ IndexIdle
    /\ ParseIdle
    /\ UNCHANGED <<fs, dstamp, nonreg, fsChanges, env, BBPATH, resolve_cache,
                   resolve_order, totals, times, seen, lru, overflows,
                   indexCaches, parseState>>

\* d.setVar("BBPATH", bp)
SetBBPATH(bp) ==
    /\ bp # BBPATH
    /\ BBPATH' = bp
    /\ IndexIdle
    /\ ParseIdle
    /\ UNCHANGED <<fs, dstamp, nonreg, fsChanges, markCalls, env, depends,
                   mtime_cache, resolve_cache, resolve_order, totals, times,
                   lastR, seen, lru, overflows, indexCaches, parseState>>

\* another process creates or rewrites p: a stat triple never seen before
WriteFile(p) ==
    /\ fsChanges < MaxFsChanges
    /\ fs[p] < MaxStamp
    /\ fs' = [fs EXCEPT ![p] = fs[p] + 1]
    /\ fsChanges' = fsChanges + 1
    /\ lastR' = NoCall
    /\ IndexIdle
    /\ ParseIdle
    /\ UNCHANGED <<dstamp, nonreg, markCalls, env, BBPATH, depends, mtime_cache,
                   resolve_cache, resolve_order, totals, times, seen, lru,
                   overflows, indexCaches, parseState>>

\* another process deletes p
RemoveFile(p) ==
    /\ fsChanges < MaxFsChanges
    /\ fs[p] # 0
    /\ fs' = [fs EXCEPT ![p] = 0]
    /\ fsChanges' = fsChanges + 1
    /\ lastR' = NoCall
    /\ IndexIdle
    /\ ParseIdle
    /\ UNCHANGED <<dstamp, nonreg, markCalls, env, BBPATH, depends, mtime_cache,
                   resolve_cache, resolve_order, totals, times, seen, lru,
                   overflows, indexCaches, parseState>>

\* the caller goes on with a fresh datastore (same BBPATH, empty __depends);
\* the module-level caches stay
NewDatastore ==
    /\ depends # <<>>
    /\ depends' = <<>>
    /\ seen' = {}
    /\ lastR' = [NoCall EXCEPT !.op = "new_datastore"]
    /\ IndexIdle
    /\ ParseIdle
    /\ UNCHANGED <<fs, dstamp, nonreg, fsChanges, markCalls, env, BBPATH,
                   mtime_cache, resolve_cache, resolve_order, totals, times,
                   lru, overflows, indexCaches, parseState>>

NextResolver ==
    \/ NewDatastore
    \/ \E fn \in ResolveTargets : ResolveFileCall(fn)
    \/ \E f \in MarkTargets : MarkDependencyCall(f)
    \/ \E p \in ChangedPaths : WriteFile(p)
    \/ \E p \in ChangedPaths : RemoveFile(p)

Init == InitResolver

Next == NextResolver

Spec == Init /\ [][Next]_vars

(***************************************************************************)
(* The resolver cache alone: resolve_file calls with relative names under  *)
(* a changing BBPATH, on a file system that stays as it is.  lru and       *)
(* overflows record the accesses as the calls make them.                   *)
(***************************************************************************)
LruResolveCall(fn) ==
    /\ times["resolve_file"] < MaxLruCalls
    /\ LET r   == resolve_file(ProgState, fn, BBPATH)
           key == ResolveKey(fn, BBPATH)
           counted == ~ResolveCacheDisabled
       IN  /\ SetProgState(r.st)
           /\ lastR' = [op |-> "resolve_file", fn |-> fn, bp |-> BBPATH,
                        ret |-> r.ret, err |-> r.err, attempts |-> r.attempts,
                        hit |-> r.hit]
           /\ lru' = IF counted THEN Touched(lru, key) ELSE lru
           /\ overflows' =
                IF counted /\ ~r.hit
                   /\ Cardinality(DOMAIN resolve_cache) >= ResolveCacheMax
                THEN overflows + 1 ELSE overflows
    /\ IndexIdle
    /\ ParseIdle
    /\ UNCHANGED <<fs, dstamp, nonreg, fsChanges, markCalls, env, BBPATH, seen>>

NextLru ==
    \/ \E fn \in RelNames : LruResolveCall(fn)
    \/ \E bp \in BBPaths : SetBBPATH(bp)

SpecLru == InitResolver /\ [][NextLru]_vars

(***************************************************************************)
(* The directory indexes and the inherit memo as a state machine: calls    *)
(* of _get_class_index, _get_include_index and _resolve_inherit_file       *)
(* under a changing BBPATH, while other processes add and remove files in  *)
(* the directories of the search path.                                     *)
(***************************************************************************)
\* the directories a key of an index is built from
ClassKeyDirs(bp, ct) ==
    {RealDir(ClassCandDirs(bp, ct)[i]) : i \in DOMAIN ClassCandDirs(bp, ct)}
IncludeKeyDirs(dname, bp) ==
    {RealDir(_include_search_dirs(dname, bp)[i]) :
        i \in DOMAIN _include_search_dirs(dname, bp)}

\* the inherit targets: a plain class name, a name with a subdirectory and
\* an absolute path
InheritTargets == {PlainBase, <<NoDir, <<"sub/other", "">>>>,
                   <<<<"/b", "classes">>, BaseClass>>}
\* os.path.dirname(parentfn) of the including files
IncludeDirs == {NoDir, Dir("/b")}
\* the files other processes add and remove
IndexChangedPaths == {<<<<"/a", "classes">>, BaseClass>>, Path("/b", G)}

InitIndex ==
    /\ fs = [p \in AbsPaths |->
               IF p \in {<<<<"/b", "classes">>, BaseClass>>,
                         <<<<"/b", "classes">>, SubClass>>,
                         Path("/b", F)}
               THEN 1 ELSE 0]
    /\ dstamp = [d \in AbsDirs |-> IF d = <<"/a", "classes-recipe">> THEN 0 ELSE 1]
    /\ nonreg = {}
    /\ fsChanges = 0
    /\ InitIndexEmpty
    /\ InitParseEmpty
    /\ env \in {{}, {"BB_OPT_DISABLE_CLASS_INDEX"}}
    /\ BBPATH \in BBPaths
    /\ markCalls = 0
    /\ depends = <<>>
    /\ mtime_cache = EmptyMap
    /\ resolve_cache = EmptyMap
    /\ resolve_order = <<>>
    /\ totals = ZeroTotals
    /\ times = ZeroTimes
    /\ lastR = NoCall
    /\ seen = {}
    /\ lru = <<>>
    /\ overflows = 0

ResolverIdle ==
    /\ UNCHANGED <<markCalls, lastR, seen, lru, overflows, lastP,
                   parseCalls, flines>>
    /\ MetricsIdle

\* one direct call _get_class_index(bbpath, classtype)
GetClassIndexCall ==
    /\ indexCalls < MaxIndexCalls
    /\ LET key == ClassIndexKey(BBPATH, BBCLASSTYPE)
           fp  == _dirs_fingerprint(_bbpath_dirs_for_classes(BBPATH, BBCLASSTYPE))
           g   == _get_class_index(ProgState, BBPATH, BBCLASSTYPE)
           k   == <<"class", key>>
       IN  /\ SetProgState(g.st)
           /\ lastI' = [NoIndexCall EXCEPT
                          !.op = "get_index", !.idx = "class", !.key = key,
                          !.rebuilt = g.rebuilt,
                          !.differed = (key \in DOMAIN class_index_cache
                                        /\ class_index_cache[key][1] # fp),
                          !.wasFresh = (k \in fresh),
                          !.keysUsed = Cardinality(
                              {u \in used \cup {k} : u[1] = "class"})]
           /\ fresh' = fresh \cup {k}
           /\ used' = used \cup {k}
    /\ indexCalls' = indexCalls + 1
    /\ ResolverIdle
    /\ UNCHANGED <<fs, dstamp, nonreg, fsChanges, env, BBPATH, changedCls>>

\* one direct call _get_include_index(dname, bbpath)
GetIncludeIndexCall(dname) ==
    /\ indexCalls < MaxIndexCalls
    /\ LET key == IncludeIndexKey(dname, BBPATH)
           fp  == _dirs_fingerprint(_include_search_dirs(dname, BBPATH))
           g   == _get_include_index(ProgState, dname, BBPATH)
           k   == <<"include", key>>
       IN  /\ SetProgState(g.st)
           /\ lastI' = [NoIndexCall EXCEPT
                          !.op = "get_index", !.idx = "include", !.key = key,
                          !.rebuilt = g.rebuilt,
                          !.differed = (key \in DOMAIN include_index_cache
                                        /\ include_index_cache[key][1] # fp),
                          !.wasFresh = (k \in fresh),
                          !.keysUsed = Cardinality(
                              {u \in used \cup {k} : u[1] = "include"})]
           /\ fresh' = fresh \cup {k}
           /\ used' = used \cup {k}
    /\ indexCalls' = indexCalls + 1
    /\ ResolverIdle
    /\ UNCHANGED <<fs, dstamp, nonreg, fsChanges, env, BBPATH, changedCls>>

\* one call _resolve_inherit_file(d, origfile)
ResolveInheritCall(origfile) ==
    /\ indexCalls < MaxIndexCalls
    /\ LET r == _resolve_inherit_file(ProgState, origfile, BBPATH, BBCLASSTYPE)
           k == <<"class", ClassIndexKey(BBPATH, BBCLASSTYPE)>>
       IN  /\ SetProgState(r.st)
           /\ lastI' = [NoIndexCall EXCEPT
                          !.op = "resolve_inherit", !.origfile = origfile,
                          !.bp = BBPATH,
                          !.val = r.val, !.hit = r.hit, !.rebuilt = r.rebuilt,
                          !.afterChange = (origfile[2][1] \in changedCls)]
           /\ fresh' = IF r.indexed THEN fresh \cup {k} ELSE fresh
           /\ used' = IF r.indexed THEN used \cup {k} ELSE used
    /\ changedCls' = changedCls \ {origfile[2][1]}
    /\ indexCalls' = indexCalls + 1
    /\ ResolverIdle
    /\ UNCHANGED <<fs, dstamp, nonreg, fsChanges, env, BBPATH>>

\* the index keys with directory d among their directories
KeysOfDir(d) ==
    {k \in fresh :
        \/ k[1] = "class" /\ d \in ClassKeyDirs(k[2][2], k[2][1])
        \/ k[1] = "include" /\ d \in IncludeKeyDirs(k[2][1], k[2][2])}

\* another process creates p in its directory: the directory's mtime moves
CreateFile(p) ==
    /\ fs[p] = 0
    /\ dstamp[p[1]] # 0
    /\ dstamp[p[1]] < MaxDirStamp
    /\ fs' = [fs EXCEPT ![p] = 1]
    /\ dstamp' = [dstamp EXCEPT ![p[1]] = @ + 1]
    /\ fresh' = fresh \ KeysOfDir(p[1])
    /\ changedCls' = IF p[2][2] = ".bbclass"
                     THEN changedCls \cup {p[2][1]} ELSE changedCls
    /\ lastI' = NoIndexCall
    /\ ResolverIdle
    /\ UNCHANGED <<nonreg, fsChanges, env, BBPATH, depends, mtime_cache,
                   resolve_cache, resolve_order, totals, times, indexCaches,
                   parseState, used, indexCalls>>

\* another process removes p from its directory
DeleteFile(p) ==
    /\ fs[p] # 0
    /\ dstamp[p[1]] < MaxDirStamp
    /\ fs' = [fs EXCEPT ![p] = 0]
    /\ dstamp' = [dstamp EXCEPT ![p[1]] = @ + 1]
    /\ fresh' = fresh \ KeysOfDir(p[1])
    /\ changedCls' = IF p[2][2] = ".bbclass"
                     THEN changedCls \cup {p[2][1]} ELSE changedCls
    /\ lastI' = NoIndexCall
    /\ ResolverIdle
    /\ UNCHANGED <<nonreg, fsChanges, env, BBPATH, depends, mtime_cache,
                   resolve_cache, resolve_order, totals, times, indexCaches,
                   parseState, used, indexCalls>>

NextIndex ==
    \/ GetClassIndexCall
    \/ \E dname \in IncludeDirs : GetIncludeIndexCall(dname)
    \/ \E origfile \in InheritTargets : ResolveInheritCall(origfile)
    \/ \E p \in IndexChangedPaths : CreateFile(p)
    \/ \E p \in IndexChangedPaths : DeleteFile(p)

SpecIndex == InitIndex /\ [][NextIndex]_vars

(***************************************************************************)
(* The search order of a plain class name, for every layout of one class   *)
(* file over the class directories of the search path, with the class      *)
(* index on and off.                                                       *)
(***************************************************************************)
ClassOrderPlaces ==
    {<<<<b, sub>>, BaseClass>> : b \in AbsBases, sub \in {"classes-recipe", "classes"}}
ClassOrderPaths == {<<"/a", "/b">>, <<"/b", "/a">>}
ClassOrderTargets == {PlainBase, PlainMid}

InitClassOrder ==
    /\ \E S \in SUBSET ClassOrderPlaces :
          fs = [p \in AbsPaths |-> IF p \in S THEN 1 ELSE 0]
    /\ dstamp = [d \in AbsDirs |-> 1]
    /\ nonreg = {}
    /\ fsChanges = 0
    /\ InitIndexEmpty
    /\ InitParseEmpty
    /\ env \in {{}, {"BB_OPT_DISABLE_CLASS_INDEX"}}
    /\ BBPATH \in ClassOrderPaths
    /\ markCalls = 0
    /\ depends = <<>>
    /\ mtime_cache = EmptyMap
    /\ resolve_cache = EmptyMap
    /\ resolve_order = <<>>
    /\ totals = ZeroTotals
    /\ times = ZeroTimes
    /\ lastR = NoCall
    /\ seen = {}
    /\ lru = <<>>
    /\ overflows = 0

NextClassOrder ==
    \/ GetClassIndexCall
    \/ \E origfile \in ClassOrderTargets : ResolveInheritCall(origfile)

SpecClassOrder == InitClassOrder /\ [][NextClassOrder]_vars

(***************************************************************************)
(* The parser as a state machine: calls of bb.parse.handle,                *)
(* include_single_file, inherit and get_statements on one datastore after  *)
(* the other, the caches of the modules staying.  The file system stays   *)
(* as it is.                                                               *)
(***************************************************************************)
ClassDir == <<"/a", "classes">>

\* the files that exist
ParseFiles == {<<ClassDir, BaseClass>>, <<ClassDir, MidClass>>, Path("/a", R),
               Path("/b", G), Path("/b", OpenInc), Path("/b", UnclosedInc),
               Path("/b", ContInc), Path("/b", SelfInc), Path("/b", F),
               Path("/b", RelSelfInc), Path("/b", CycA), Path("/b", CycB),
               Path("/a", OpenRecipe), Path("/a", SkipRecipe),
               Path("/b", SkipInc), Path("/a", SkipUser), Path("/b", BadInc),
               Path("/b", BadConf), Path("/b", SkipConf),
               <<ClassDir, SkipClass>>, Path("/a", SkipClassRecipe)}

HandleTargets == {Path("/a", R), Path("", G), Path("/b", OpenInc),
                  Path("/b", UnclosedInc), Path("/b", ContInc),
                  Path("/b", SelfInc), Path("/b", F), PlainBase}
IncludeParents == {Path("/b", G), <<ClassDir, BaseClass>>}
IncludeTargets == {Path("/b", G), Path("", G), Path("", OpenInc)}
InheritLists == {<<PlainBase>>, <<PlainMid>>, <<PlainMid, PlainBase>>,
                 <<<<ClassDir, BaseClass>>>>}
StatementTargets == {Path("/a", R), Path("/b", G), Path("/b", OpenInc),
                     Path("/b", UnclosedInc), <<ClassDir, BaseClass>>}

InitParse ==
    /\ fs = [p \in AbsPaths |-> IF p \in ParseFiles THEN 1 ELSE 0]
    /\ dstamp = [d \in AbsDirs |->
                   IF d \in {Dir("/a"), Dir("/b"), ClassDir} THEN 1 ELSE 0]
    /\ nonreg = {}
    /\ fsChanges = 0
    /\ InitIndexEmpty
    /\ InitParseEmpty
    /\ env \in {{}, {"BB_OPT_DISABLE_INCLUDE_INDEX"}}
    /\ BBPATH = <<"/a", "/b">>
    /\ markCalls = 0
    /\ depends = <<>>
    /\ mtime_cache = EmptyMap
    /\ resolve_cache = EmptyMap
    /\ resolve_order = <<>>
    /\ totals = ZeroTotals
    /\ times = ZeroTimes
    /\ lastR = NoCall
    /\ seen = {}
    /\ lru = <<>>
    /\ overflows = 0

\* what a parse-level call leaves alone
ParseFrame ==
    /\ IndexIdle
    /\ MetricsIdle
    /\ UNCHANGED <<fs, dstamp, nonreg, fsChanges, env, BBPATH, markCalls,
                   lastR, seen, lru, overflows, flines>>

\* one call bb.parse.handle(fn, d) by the caller of the parser
HandleCall(fn) ==
    /\ parseCalls < MaxParseCalls
    /\ \E st \in {ProgState} : \E r \in {handle(st, fn, 0, 1)} :
           /\ SetProgState(r.st)
           /\ lastP' = [ParseCall(st) EXCEPT !.op = "handle", !.fn = fn,
                                           !.err = r.err]
    /\ parseCalls' = parseCalls + 1
    /\ ParseFrame

\* one call include_single_file(parentfn, fn, lineno, d, error_out)
IncludeSingleFileCall(parentfn, fn, error_out) ==
    /\ parseCalls < MaxParseCalls
    /\ \E st \in {ProgState} :
       \E r \in {include_single_file(st, parentfn, fn, error_out, 0)} :
           /\ SetProgState(r.st)
           /\ lastP' = [ParseCall(st) EXCEPT !.op = "include_single_file",
                                           !.fn = fn, !.parentfn = parentfn,
                                           !.error_out = error_out,
                                           !.err = r.err]
    /\ parseCalls' = parseCalls + 1
    /\ ParseFrame

\* the path _resolve_inherit_file gives for a class
ResolvedClass(st, file) ==
    _resolve_inherit_file(st, file, BBPATH, BBCLASSTYPE).val[1]

\* one call inherit(files, fn, lineno, d)
InheritCall(files) ==
    /\ parseCalls < MaxParseCalls
    /\ \E st \in {ProgState} :
       \E r \in {inherit(st, files, Path("/a", R), NoLine, FALSE, 0)} :
           /\ SetProgState(r.st)
           /\ lastP' = [ParseCall(st) EXCEPT
                          !.op = "inherit", !.classes = files, !.err = r.err,
                          !.listed = \A i \in DOMAIN files :
                              ResolvedClass(st, files[i]) \in Range(inherit_cache)]
    /\ parseCalls' = parseCalls + 1
    /\ ParseFrame

\* one call inherit(files, fn, lineno, d, deferred) from the recipe
InheritDeferCall(files, lineno, deferred) ==
    /\ parseCalls < MaxParseCalls
    /\ \E st \in {ProgState} :
       \E r \in {inherit(st, files, Path("/a", R), lineno, deferred, 0)} :
           /\ SetProgState(r.st)
           /\ lastP' = [ParseCall(st) EXCEPT
                          !.op = "inherit", !.classes = files, !.err = r.err,
                          !.fn = Path("/a", R), !.lineno = lineno,
                          !.deferred = deferred]
    /\ parseCalls' = parseCalls + 1
    /\ ParseFrame

\* d.setVar("BB_DEFER_BBCLASSES", ...) by the configuration
SetDeferClasses(names) ==
    /\ BB_DEFER_BBCLASSES # names
    /\ BB_DEFER_BBCLASSES' = names
    /\ lastP' = [NoParseCall EXCEPT !.op = "set_defer"]
    /\ ParseFrame
    /\ UNCHANGED <<depends, mtime_cache, resolve_cache, resolve_order, totals,
                   times, indexCaches, cached_statements,
                   conf_statements_cache, supports_cache,
                   include_resolve_cache, include_resolve_order, infunc, body,
                   residue, classname, FILE, inherit_cache, SKIPPED, returned,
                   handled, opened, trees, built, inherited, parseCalls,
                   BBDEFINHERITS, inchistory, scopes>>

\* one call get_statements(fn, fn, basename(fn))
GetStatementsCall(fn) ==
    /\ parseCalls < MaxParseCalls
    /\ \E st \in {ProgState} : \E r \in {get_statements(st, fn, fn)} :
           /\ SetProgState(r.st)
           /\ lastP' = [ParseCall(st) EXCEPT
                          !.op = "get_statements", !.fn = fn, !.err = r.err,
                          !.tree = r.tree.id, !.stmts = r.tree.stmts,
                          !.first = IF fn \in DOMAIN built THEN built[fn] ELSE 0,
                          !.read = (r.st.opened # opened)]
    /\ parseCalls' = parseCalls + 1
    /\ ParseFrame

\* one call _get_conf_statements(abs_fn, False)
GetConfStatementsCall(abs_fn) ==
    /\ parseCalls < MaxParseCalls
    /\ \E st \in {ProgState} : \E r \in {_get_conf_statements(st, abs_fn, FALSE)} :
           /\ SetProgState(r.st)
           /\ lastP' = [ParseCall(st) EXCEPT
                          !.op = "_get_conf_statements", !.fn = abs_fn,
                          !.err = r.err, !.tree = r.tree.id,
                          !.stmts = r.tree.stmts,
                          !.read = (r.st.opened # opened)]
    /\ parseCalls' = parseCalls + 1
    /\ ParseFrame

\* the caller goes on with a fresh datastore; the caches and the globals of
\* the modules stay
NewParseDatastore ==
    /\ depends # <<>> \/ handled # <<>>
    /\ depends' = <<>>
    /\ FILE' = NoFile
    /\ inherit_cache' = <<>>
    /\ handled' = <<>>
    /\ inherited' = <<>>
    /\ SKIPPED' = FALSE
    /\ returned' = <<>>
    /\ BBDEFINHERITS' = <<>>
    /\ inchistory' = <<>>
    /\ scopes' = <<>>
    /\ lastP' = [NoParseCall EXCEPT !.op = "new_datastore"]
    /\ ParseFrame
    /\ UNCHANGED <<mtime_cache, resolve_cache, resolve_order, totals, times,
                   indexCaches, cached_statements, conf_statements_cache,
                   supports_cache, include_resolve_cache,
                   include_resolve_order, infunc, body, residue, classname,
                   opened, trees, built, parseCalls, BB_DEFER_BBCLASSES>>

NextParse ==
    \/ \E fn \in HandleTargets : HandleCall(fn)
    \/ \E parentfn \in IncludeParents, fn \in IncludeTargets,
          error_out \in BOOLEAN : IncludeSingleFileCall(parentfn, fn, error_out)
    \/ \E files \in InheritLists : InheritCall(files)
    \/ \E fn \in StatementTargets : GetStatementsCall(fn)
    \/ NewParseDatastore

SpecParse == InitParse /\ [][NextParse]_vars

(***************************************************************************)
(* What the evaluation of a file can end in: handle, include_single_file   *)
(* and inherit on files whose evaluation raises SkipRecipe or ParseError,  *)
(* that include themselves or each other, or that do not exist.            *)
(***************************************************************************)
EvalHandleTargets == {Path("/b", SelfInc), Path("/b", RelSelfInc),
                      Path("/b", CycA),
                      Path("/a", OpenRecipe), Path("/a", SkipRecipe),
                      Path("/a", SkipUser), Path("/a", SkipClassRecipe),
                      PlainBase}
EvalIncludeTargets == {Path("/b", F), Path("", SkipInc), Path("/b", BadInc),
                       Path("/b", BadConf), Path("", Missing)}
EvalInheritLists == {<<PlainSkipClass>>, <<PlainNoClass>>}

NextEval ==
    \/ \E fn \in EvalHandleTargets : HandleCall(fn)
    \/ \E parentfn \in IncludeParents, fn \in EvalIncludeTargets,
          error_out \in BOOLEAN : IncludeSingleFileCall(parentfn, fn, error_out)
    \/ \E files \in EvalInheritLists : InheritCall(files)
    \/ NewParseDatastore

SpecEval == InitParse /\ [][NextEval]_vars

(***************************************************************************)
(* Classes that inherit each other: handle of the recipes that inherit     *)
(* them and inherit of the classes themselves, for every layout of the     *)
(* three class files over the class directories.                           *)
(***************************************************************************)
CycleClasses == <<CycClassA, CycClassB, SelfClass>>
CycleClassDirs == {<<"/a", "classes">>, <<"/a", "classes-recipe">>,
                   <<"/b", "classes">>}
CycleRecipes == {Path("/a", CycRecipe), Path("/a", SelfClassRecipe)}
CycleInheritLists == {<<PlainCycB>>, <<PlainSelfClass, PlainCycA>>}

InitCycle ==
    /\ \E place \in [DOMAIN CycleClasses -> CycleClassDirs] :
          fs = [p \in AbsPaths |->
                  IF \/ p \in CycleRecipes
                     \/ \E i \in DOMAIN CycleClasses :
                            p = <<place[i], CycleClasses[i]>>
                  THEN 1 ELSE 0]
    /\ dstamp = [d \in AbsDirs |-> 1]
    /\ nonreg = {}
    /\ fsChanges = 0
    /\ InitIndexEmpty
    /\ InitParseEmpty
    /\ env = {}
    /\ BBPATH = <<"/a", "/b">>
    /\ markCalls = 0
    /\ depends = <<>>
    /\ mtime_cache = EmptyMap
    /\ resolve_cache = EmptyMap
    /\ resolve_order = <<>>
    /\ totals = ZeroTotals
    /\ times = ZeroTimes
    /\ lastR = NoCall
    /\ seen = {}
    /\ lru = <<>>
    /\ overflows = 0

NextCycle ==
    \/ \E fn \in CycleRecipes : HandleCall(fn)
    \/ \E files \in CycleInheritLists : InheritCall(files)
    \/ NewParseDatastore

SpecCycle == InitCycle /\ [][NextCycle]_vars

(***************************************************************************)
(* inherit while other processes add and remove class files: calls of      *)
(* inherit on one datastore after the other, and changes of the class      *)
(* directory.                                                              *)
(***************************************************************************)
InheritChangedPaths == {<<ClassDir, BaseClass>>, <<ClassDir, MidClass>>}
InheritCallLists == {<<PlainBase>>, <<PlainMid>>, <<PlainNoClass>>}

NextInherit ==
    \/ \E files \in InheritCallLists : InheritCall(files)
    \/ \E p \in InheritChangedPaths : CreateFile(p)
    \/ \E p \in InheritChangedPaths : DeleteFile(p)
    \/ NewParseDatastore

SpecInherit == InitParse /\ [][NextInherit]_vars

(***************************************************************************)
(* The handler registry: calls of bb.parse.supports and bb.parse.handle on *)
(* names with and without an extension, the extension cache on and off.    *)
(***************************************************************************)
Readme == <<"README", "">>
SupportsTargets == {Path("/b", F), Path("/a", R), Path("/b", G),
                    <<ClassDir, BaseClass>>, Path("/a", Readme),
                    Path("/a", DotConf), Path("/b", DotConf)}
SupportsHandleTargets == {Path("/b", F), PlainBase, Path("/a", DotConf)}

\* one call bb.parse.supports(fn, d)
SupportsCall(fn) ==
    /\ parseCalls < MaxSupportsCalls
    /\ \E st \in {ProgState} : \E g \in {_get_handler(st, fn)} :
           /\ SetProgState(g.st)
           /\ lastP' = [ParseCall(st) EXCEPT !.op = "supports", !.fn = fn,
                                           !.h = g.h]
    /\ parseCalls' = parseCalls + 1
    /\ ParseFrame

InitSupports ==
    /\ fs = [p \in AbsPaths |-> IF p \in ParseFiles THEN 1 ELSE 0]
    /\ dstamp = [d \in AbsDirs |->
                   IF d \in {Dir("/a"), Dir("/b"), ClassDir} THEN 1 ELSE 0]
    /\ nonreg = {}
    /\ fsChanges = 0
    /\ InitIndexEmpty
    /\ InitParseEmpty
    /\ env \in {{}, {"BB_OPT_DISABLE_SUPPORTS_CACHE"}}
    /\ BBPATH = <<"/a", "/b">>
    /\ markCalls = 0
    /\ depends = <<>>
    /\ mtime_cache = EmptyMap
    /\ resolve_cache = EmptyMap
    /\ resolve_order = <<>>
    /\ totals = ZeroTotals
    /\ times = ZeroTimes
    /\ lastR = NoCall
    /\ seen = {}
    /\ lru = <<>>
    /\ overflows = 0

NextSupports ==
    \/ \E fn \in SupportsTargets : SupportsCall(fn)
    \/ \E fn \in SupportsHandleTargets : HandleCall(fn)

SpecSupports == InitSupports /\ [][NextSupports]_vars

(***************************************************************************)
(* The metrics module under threads.  A call of hit, miss or evict is      *)
(* _bump: it takes _lock, reads the counter, stores the counter plus one,  *)
(* and gives the lock back; a KeyError for a section without a bucket is   *)
(* caught inside the with block.  flush takes the lock to put the buckets  *)
(* into its payload, gives it back and then writes the payload.            *)
(***************************************************************************)
MetricSections == {"which", NoSection}
BumpOps == [hit |-> "hits", miss |-> "misses", evict |-> "evictions"]

\* "with _lock:" waits until no thread holds the lock
LockFree_Always == TRUE

LockFree == lock = NoThread

\* "except Exception: pass" of _bump catches what the update raises
CaughtInBump_Nothing(exc) == FALSE

CaughtInBump(exc) == exc \in {"KeyError", "TypeError"}

\* the thread is back in its caller: what is kept of the call is whether
\* it raised
ThreadReturned(th) ==
    [IdleThread EXCEPT !.made = th.made, !.raised = th.raised]

\* what a thread step leaves alone
MetricsFrame ==
    /\ IndexIdle
    /\ UNCHANGED <<fs, dstamp, nonreg, fsChanges, markCalls, env, BBPATH,
                   depends, mtime_cache, resolve_cache, resolve_order, times,
                   lastR, seen, lru, overflows, indexCaches, parseState,
                   lastP, parseCalls, flines>>

\* thread t calls hit(section), miss(section) or evict(section)
BumpCall(t, op, section) ==
    /\ threads[t].pc = "idle"
    /\ threads[t].made < MaxMetricCalls
    /\ threads' = [threads EXCEPT ![t] =
                     [pc |-> "acquire", op |-> op, section |-> section,
                      field |-> BumpOps[op], tmp |-> 0, raised |-> FALSE,
                      made |-> @.made + 1]]
    /\ UNCHANGED <<lock, totals, calls, flushed>>
    /\ MetricsFrame

\* thread t calls flush(note)
FlushCall(t) ==
    /\ threads[t].pc = "idle"
    /\ threads[t].made < MaxMetricCalls
    /\ threads' = [threads EXCEPT ![t] =
                     [pc |-> "acquire", op |-> "flush", section |-> "",
                      field |-> "", tmp |-> 0, raised |-> FALSE,
                      made |-> @.made + 1]]
    /\ UNCHANGED <<lock, totals, calls, flushed>>
    /\ MetricsFrame

\* line 47 and line 98: the with statement takes the lock
Acquire(t) ==
    /\ threads[t].pc = "acquire"
    /\ LockFree
    /\ lock' = t
    /\ threads' = [threads EXCEPT ![t].pc =
                     IF threads[t].op = "flush" THEN "update" ELSE "read"]
    /\ UNCHANGED <<totals, calls, flushed>>
    /\ MetricsFrame

\* line 49, first half: _totals[section][field] is read
BumpRead(t) ==
    /\ threads[t].pc = "read"
    /\ threads' = [threads EXCEPT ![t] =
                     IF threads[t].section \in DOMAIN totals
                     THEN [@ EXCEPT !.pc = "write",
                                    !.tmp = totals[threads[t].section]
                                                  [threads[t].field]]
                     ELSE [@ EXCEPT !.pc = "release",
                                    !.raised = ~CaughtInBump("KeyError")]]
    /\ UNCHANGED <<lock, totals, calls, flushed>>
    /\ MetricsFrame

\* line 49, second half: the sum is stored
BumpWrite(t) ==
    /\ threads[t].pc = "write"
    /\ totals' = [totals EXCEPT ![threads[t].section][threads[t].field] =
                     threads[t].tmp + 1]
    /\ threads' = [threads EXCEPT ![t].pc = "release"]
    /\ UNCHANGED <<lock, calls, flushed>>
    /\ MetricsFrame

\* lines 99-100: the payload takes the buckets of _totals, by reference
FlushUpdate(t) ==
    /\ threads[t].pc = "update"
    /\ threads' = [threads EXCEPT ![t].pc = "release"]
    /\ UNCHANGED <<lock, totals, calls, flushed>>
    /\ MetricsFrame

\* the with block is left: the lock is given back; _bump returns (or the
\* exception it did not catch goes on to the caller)
Release(t) ==
    /\ threads[t].pc = "release"
    /\ lock' = IF lock = t THEN NoThread ELSE lock
    /\ IF threads[t].op = "flush"
       THEN /\ threads' = [threads EXCEPT ![t].pc = "dump"]
            /\ calls' = calls
       ELSE /\ threads' = [threads EXCEPT ![t] = ThreadReturned(@)]
            /\ calls' = [calls EXCEPT
                           ![<<threads[t].section, threads[t].field>>] = @ + 1]
    /\ UNCHANGED <<totals, flushed>>
    /\ MetricsFrame

\* lines 101-106: json.dumps reads the buckets as they are now, outside
\* the lock, and the line is written
FlushDump(t) ==
    /\ threads[t].pc = "dump"
    /\ flushed' = <<totals>>
    /\ threads' = [threads EXCEPT ![t] = ThreadReturned(@)]
    /\ UNCHANGED <<lock, totals, calls>>
    /\ MetricsFrame

InitMetrics == InitParse /\ env = {}

NextMetrics ==
    \/ \E t \in Threads, op \in DOMAIN BumpOps, section \in MetricSections :
          BumpCall(t, op, section)
    \/ \E t \in Threads : FlushCall(t)
    \/ \E t \in Threads : Acquire(t)
    \/ \E t \in Threads : BumpRead(t)
    \/ \E t \in Threads : BumpWrite(t)
    \/ \E t \in Threads : FlushUpdate(t)
    \/ \E t \in Threads : Release(t)
    \/ \E t \in Threads : FlushDump(t)

SpecMetrics == InitMetrics /\ [][NextMetrics]_vars

(***************************************************************************)
(* Deferred inherits: BB_DEFER_BBCLASSES names classes whose inherit is    *)
(* put off; the recipe's finalisation calls inherit again, deferred=True.  *)
(***************************************************************************)
DeferSets == {{}, {PlainBase}, {PlainBase, PlainMid}}
DeferLists == {<<PlainBase>>, <<PlainMid>>, <<PlainMid, PlainBase>>,
               <<PlainBase, PlainMid>>}
DeferLines == {1, 2}

NextDefer ==
    \/ \E files \in DeferLists, lineno \in DeferLines, deferred \in BOOLEAN :
          InheritDeferCall(files, lineno, deferred)
    \/ \E names \in DeferSets : SetDeferClasses(names)
    \/ NewParseDatastore

SpecDefer == InitParse /\ [][NextDefer]_vars

(***************************************************************************)
(* The two line grammars as functions of the text of a file: the lines of  *)
(* /b/lines.inc and /b/lines.conf are drawn from PhysLines, and the file   *)
(* is parsed by get_statements and by _get_conf_statements.                *)
(***************************************************************************)
MaxLines == 3

\* the texts a physical line has, without the newline
PhysLines ==
    {<<"A", "=", "q", "v", "q">>,
     <<"A", "=", "q", "v", " ", Backslash>>,
     <<"A", "=", "q", Backslash, Backslash>>,
     <<"v", Backslash, " ">>,
     <<"v", "q">>,
     <<"#", "v">>,
     <<"#", "v", "q">>,
     <<"#", "v", Backslash>>,
     <<Backslash>>,
     <<>>}

RECURSIVE SeqsUpTo(_, _)
SeqsUpTo(S, n) ==
    IF n = 0 THEN {<<>>}
    ELSE LET shorter == SeqsUpTo(S, n - 1)
         IN  shorter \cup {Append(s, x) : s \in shorter, x \in S}

LineFiles == {Path("/b", LinesInc), Path("/b", LinesConf)}

InitLines ==
    /\ fs = [p \in AbsPaths |-> IF p \in LineFiles THEN 1 ELSE 0]
    /\ dstamp = [d \in AbsDirs |-> IF d = Dir("/b") THEN 1 ELSE 0]
    /\ nonreg = {}
    /\ fsChanges = 0
    /\ InitIndexEmpty
    /\ InitParseGlobals
    /\ flines \in {[i \in DOMAIN l |-> Raw(l[i])] :
                       l \in SeqsUpTo(PhysLines, MaxLines) \ {<<>>}}
    /\ env = {}
    /\ BBPATH = <<"/a", "/b">>
    /\ markCalls = 0
    /\ depends = <<>>
    /\ mtime_cache = EmptyMap
    /\ resolve_cache = EmptyMap
    /\ resolve_order = <<>>
    /\ totals = ZeroTotals
    /\ times = ZeroTimes
    /\ lastR = NoCall
    /\ seen = {}
    /\ lru = <<>>
    /\ overflows = 0

NextLines ==
    \/ GetStatementsCall(Path("/b", LinesInc))
    \/ GetConfStatementsCall(Path("/b", LinesConf))

SpecLines == InitLines /\ [][NextLines]_vars

(***************************************************************************)
(* get_statements line by line: the lines of a recipe file with shell      *)
(* functions go to the feeder one at a time.  lastP holds the position of  *)
(* the loop (lineno) and the statements made so far (stmts).               *)
(***************************************************************************)
MaxFuncLines == 4

\* an opening line, closing lines with and without trailing white space,
\* a line that only starts with a brace, a comment, an assignment, a
\* directive, a line ending in a backslash and an empty line
FuncLines ==
    {<<"f{">>,
     <<"}">>,
     <<"}", " ">>,
     <<"}", "v">>,
     <<"#", "v">>,
     <<"A", "=", "q", "v", "q">>,
     <<"inherit">>,
     <<"v", Backslash, " ">>,
     <<>>}

FuncFile == Path("/b", LinesInc)

InitFeeder ==
    /\ fs = [p \in AbsPaths |-> IF p = FuncFile THEN 1 ELSE 0]
    /\ dstamp = [d \in AbsDirs |-> IF d = Dir("/b") THEN 1 ELSE 0]
    /\ nonreg = {}
    /\ fsChanges = 0
    /\ InitIndexEmpty
    /\ InitParseGlobals
    /\ flines \in {[i \in DOMAIN l |-> Raw(l[i])] :
                       l \in SeqsUpTo(FuncLines, MaxFuncLines) \ {<<>>}}
    /\ env = {}
    /\ BBPATH = <<"/a", "/b">>
    /\ markCalls = 0
    /\ depends = <<>>
    /\ mtime_cache = EmptyMap
    /\ resolve_cache = EmptyMap
    /\ resolve_order = <<>>
    /\ totals = ZeroTotals
    /\ times = ZeroTimes
    /\ lastR = NoCall
    /\ seen = {}
    /\ lru = <<>>
    /\ overflows = 0

\* lines 265-267 of get_statements: one turn of the loop, the next line of
\* the file goes to the feeder
FeederCall ==
    /\ lastP.op \in {"none", "feeder"}
    /\ lastP.err = NoErr
    /\ lastP.lineno < Len(flines)
    /\ \E st \in {ProgState} :
       \E r \in {feeder(st, lastP.stmts, flines[lastP.lineno + 1], FuncFile)} :
           /\ SetProgState(r.st)
           /\ lastP' = [lastP EXCEPT !.op = "feeder", !.fn = FuncFile,
                                     !.err = r.err, !.stmts = r.stmts,
                                     !.lineno = @ + 1]
    /\ UNCHANGED parseCalls
    /\ ParseFrame

\* lines 273-280 of get_statements, after the last line
StatementsEnd ==
    /\ lastP.op = "feeder"
    /\ lastP.err = NoErr
    /\ lastP.lineno = Len(flines)
    /\ \E st \in {ProgState} :
       \E r \in {StatementsParsed([st |-> st, stmts |-> lastP.stmts,
                                   err |-> NoErr], FuncFile, FuncFile)} :
           /\ SetProgState(r.st)
           /\ lastP' = [lastP EXCEPT !.op = "get_statements",
                                     !.err = r.err, !.tree = r.tree.id,
                                     !.stmts = r.tree.stmts]
    /\ UNCHANGED parseCalls
    /\ ParseFrame

NextFeeder == FeederCall \/ StatementsEnd

SpecFeeder == InitFeeder /\ [][NextFeeder]_vars

(***************************************************************************)
(* Claims about the resolver.                                              *)
(***************************************************************************)
DependsPaths == {depends[j][1] : j \in DOMAIN depends}

RelativeResolve == lastR.op = "resolve_file" /\ ~IsAbs(lastR.fn)

\* C1 as stated: when a resolve_file call with a relative name exits (by a
\* miss, by a hit or with not-found), every path of its attempt list is a
\* path of __depends.
C1_AttemptsInDepends ==
    RelativeResolve => Range(lastR.attempts) \subseteq DependsPaths

\* C1 as amended: when a resolve_file call with a relative name exits (by a
\* miss, by a hit or with not-found), every path of its attempt list, with
\* a leading "./" replaced by the current working directory as
\* mark_dependency writes it, is a path of __depends.
C1_AttemptsMarked ==
    RelativeResolve =>
        {DepPath(a) : a \in Range(lastR.attempts)} \subseteq DependsPaths

\* a call answered by the cache that fails with not-found on a datastore
\* other than the one the walk was made for
C1_Witness ==
    /\ RelativeResolve
    /\ lastR.hit
    /\ lastR.err = ErrNotFoundInPath
    /\ Len(lastR.attempts) = 2
    /\ Len(depends) = 2
    /\ seen = {lastR.fn}

\* what the search-path walk answers for fn under bp on the file system as
\* it is
WalkAnswer(fn, bp) ==
    LET w == which(bp, fn)
    IN  [ret |-> IF w[1] # NoFile /\ IsFile(w[1]) THEN w[1] ELSE NoFile,
         err |-> IF w[1] = NoFile THEN ErrNotFoundInPath
                 ELSE IF ~IsFile(w[1]) THEN ErrNotFound ELSE NoErr,
         attempts |-> w[2]]

\* C2: on a file system that does not change, every resolve_file call for
\* a relative name returns the path (or raises the error) and uses the
\* ordered attempt list that the search-path walk gives for that name and
\* BBPATH, whether the walk or the resolver cache answered and whatever
\* was resolved before: any two calls for the same name and BBPATH agree.
C2_ResolverDeterminism ==
    RelativeResolve =>
        LET a == WalkAnswer(lastR.fn, lastR.bp)
        IN  /\ lastR.ret = a.ret
            /\ lastR.err = a.err
            /\ lastR.attempts = a.attempts

\* a call answered from the cache after other keys were walked in between
C2_Witness ==
    /\ RelativeResolve
    /\ lastR.hit
    /\ lastR.ret # NoFile
    /\ totals["resolve_file"].misses >= 3
    /\ BBPATH # lastR.bp

C3_AppendOnly ==
    (lastR'.op \in {"resolve_file", "mark_dependency"})
        => IsPrefix(depends, depends')

C3_SecondResolve ==
    ( /\ lastR'.op = "resolve_file"
      /\ \/ lastR.op = "resolve_file" /\ lastR.fn = lastR'.fn
         \/ fsChanges = 0 /\ lastR'.fn \in seen )
        => (depends' = depends)

\* C3: __depends never holds two equal (path, stamp) entries; a
\* mark_dependency or resolve_file call only appends to it; a resolve_file
\* call that directly follows a call for the same name, and a
\* resolve_file call for a name already resolved on this datastore while
\* the file system has not changed, leave __depends as it was.
C3_DependsIdempotent ==
    /\ [](NoDup(depends))
    /\ [][C3_AppendOnly /\ C3_SecondResolve]_vars

\* a second resolve of a relative name, answered by the cache, after a file
\* changed and was marked again with its new stamp
C3_Witness ==
    /\ RelativeResolve
    /\ lastR.hit
    /\ lastR.fn \in seen
    /\ \E i, j \in DOMAIN depends :
            i # j /\ depends[i][1] = depends[j][1]

\* C9: the resolver cache never holds more than ResolveCacheMax entries;
\* the keys it holds are the ResolveCacheMax most recently accessed ones (a
\* hit and an insertion both count as an access), so an insertion into a
\* full cache evicts exactly the least recently accessed key; and the
\* metrics count one eviction for each such insertion.
C9_LruBound ==
    /\ Cardinality(DOMAIN resolve_cache) <= ResolveCacheMax
    /\ Len(resolve_order) <= ResolveCacheMax
    /\ DOMAIN resolve_cache =
            {lru[i] : i \in {j \in DOMAIN lru : j > Len(lru) - ResolveCacheMax}}
    /\ totals["resolve_file"].evictions = overflows

\* an insertion into a full cache whose oldest insertion had been hit since
C9_Witness ==
    /\ overflows >= 1
    /\ totals["resolve_file"].hits >= 1
    /\ Len(lru) > ResolveCacheMax
    /\ lru[1] # resolve_order[1]
    /\ \E i \in DOMAIN lru : i > 1 /\ lru[i][1] = lru[1][1]
    /\ ~lastR.hit

(***************************************************************************)
(* Claims about the directory indexes and the inherit memo.                *)
(***************************************************************************)
IndexCapacity(idx) == IF idx = "class" THEN ClassIndexMax ELSE IncludeIndexMax

\* the first half of C7 alone: a get_index call that finds a stored
\* fingerprint different from the current one scans the directories
IndexRebuildsOnChange ==
    lastI.op = "get_index" /\ lastI.differed => lastI.rebuilt

\* C7: a get_index call of the class index or of the include index rebuilds
\* the mapping when the fingerprint of the key's directories differs from
\* the stored one, and does not rebuild when the key was built earlier, none
\* of its directories changed since, and fewer distinct keys than the
\* capacity of the index have been used.
C7_IndexInvalidation ==
    lastI.op = "get_index" =>
        /\ lastI.differed => lastI.rebuilt
        /\ lastI.wasFresh /\ lastI.keysUsed < IndexCapacity(lastI.idx)
               => ~lastI.rebuilt

\* what _resolve_inherit_file computes from the file system as it is, with
\* no memo and no stored index
UncachedInherit(origfile, bp) ==
    InheritLookup([ProgState EXCEPT !.cic = EmptyMap, !.cio = <<>>],
                  origfile, bp, BBCLASSTYPE).val

\* C8: after a class file was added to or removed from a class directory of
\* the search path, the next _resolve_inherit_file of that plain class name
\* returns the path that matches the file system after the change.
C8_InheritAfterChange ==
    lastI.op = "resolve_inherit" /\ lastI.origfile = PlainBase
        /\ lastI.afterChange
    => lastI.val[1] = UncachedInherit(lastI.origfile, lastI.bp)[1]

\* the memo is what keeps the old answer: a resolution that the memo did not
\* answer returns the path that matches the file system
InheritFreshOnMiss ==
    lastI.op = "resolve_inherit" /\ lastI.origfile = PlainBase /\ ~lastI.hit
    => lastI.val[1] = UncachedInherit(lastI.origfile, lastI.bp)[1]

(***************************************************************************)
(* Claims about inherit, the statement cache and include_single_file.      *)
(***************************************************************************)
\* the handle calls made for p on this datastore
ClassHandles(p) == Cardinality({i \in DOMAIN handled : handled[i] = p})

C4_HandledOnce ==
    \A p \in Range(handled) : p[2][2] = ".bbclass" => ClassHandles(p) <= 1

C4_ListedInherit ==
    ( /\ parseCalls' = parseCalls + 1
      /\ lastP'.op = "inherit"
      /\ lastP'.listed )
        => (handled' = handled /\ inherit_cache' = inherit_cache)

\* C4: on one datastore handle is invoked at most once for a resolved
\* class path, whether the inherit comes from the caller or from a class
\* being inherited; and an inherit call all of whose classes resolve to
\* paths already listed in __inherit_cache invokes handle for nothing and
\* leaves __inherit_cache as it was.
C4_InheritDedup ==
    /\ [](C4_HandledOnce)
    /\ [][C4_ListedInherit]_vars

\* an inherit of listed classes after a class that inherits another one
\* was inherited
C4_Witness ==
    /\ lastP.op = "inherit"
    /\ lastP.listed
    /\ lastP.err = NoErr
    /\ Len(lastP.classes) = 2
    /\ Len(inherited) = 2
    /\ Len(handled) >= 2

\* the handle call for fn raised one of the three errors about fn
HandleFailedToParse(fn) ==
    /\ lastP.op = "handle"
    /\ lastP.fn = fn
    /\ \E e \in {ErrUnparsedResidue(fn), ErrUnclosedBody(fn),
                 ErrNeverClosed(fn)} : lastP.err = e

\* C5: a file whose handle call has just raised ParseError for unparsed
\* residue, for an unclosed function body or for a shell function that is
\* never closed has no entry in cached_statements.
C5_FailedFileNotCached ==
    \A fn \in HandleTargets :
        HandleFailedToParse(fn) => fn \notin DOMAIN cached_statements

\* the part of C5 the code keeps: the two errors get_statements raises
\* itself leave no entry
ResidueAndBodyNotCached ==
    \A fn \in HandleTargets :
        ( /\ lastP.op = "handle"
          /\ lastP.fn = fn
          /\ lastP.err \in {ErrUnparsedResidue(fn), ErrUnclosedBody(fn)} )
            => fn \notin DOMAIN cached_statements

\* a file whose function is never closed is handled a second time on the
\* same datastore without an error
NeverClosedRaisesAgain ==
    ( /\ lastP.op = "handle"
      /\ lastP.fn = Path("/b", OpenInc) )
        => lastP.err = ErrNeverClosed(Path("/b", OpenInc))

C6_CachedTree ==
    ( /\ lastP.op = "get_statements"
      /\ lastP.fn[2][2] \in {".bbclass", ".inc"}
      /\ lastP.first # 0 )
        => (lastP.err = NoErr /\ lastP.tree = lastP.first /\ ~lastP.read)

C6_RecipeNotStored ==
    ( /\ lastP'.op = "get_statements"
      /\ lastP'.fn[2][2] = ".bb" )
        => (cached_statements' = cached_statements)

\* C6: a get_statements call for a .bbclass or .inc path for which a tree
\* was built before returns that very tree and does not open the file; a
\* get_statements call for a .bb file leaves cached_statements as it was,
\* and no key of cached_statements is a .bb file.
C6_StatementRoundTrip ==
    /\ [](C6_CachedTree)
    /\ [](\A p \in DOMAIN cached_statements : p[2][2] # ".bb")
    /\ [][C6_RecipeNotStored]_vars

\* a second get_statements call for a class, other files having been
\* parsed after its tree was built
C6_Witness ==
    /\ lastP.op = "get_statements"
    /\ lastP.fn[2][2] = ".bbclass"
    /\ lastP.first # 0
    /\ lastP.tree = lastP.first
    /\ trees > lastP.first

\* what a self-include has to leave alone: __depends, every cache, the
\* metrics, the globals of the parser, and the record of handle calls and
\* of files opened
SelfIncludeFrame ==
    UNCHANGED <<depends, mtime_cache, resolve_cache, resolve_order, totals,
                times, indexCaches, cached_statements, conf_statements_cache,
                supports_cache, include_resolve_cache, include_resolve_order,
                infunc, body, residue, classname, FILE, inherit_cache,
                SKIPPED, returned, handled, opened, trees, built, inherited>>

\* C10: include_single_file(parentfn, fn, ...) with fn = parentfn changes
\* nothing: __depends, the caches and the metrics counters are as before
\* and handle is not invoked.
C10_SelfIncludeNoOp ==
    [][ ( /\ parseCalls' = parseCalls + 1
          /\ lastP'.op = "include_single_file"
          /\ lastP'.fn = lastP'.parentfn )
            => SelfIncludeFrame ]_vars

\* a self-include on a datastore that has dependencies and caches filled
C10_Witness ==
    /\ lastP.op = "include_single_file"
    /\ lastP.fn = lastP.parentfn
    /\ lastP.err = NoErr
    /\ depends # <<>>
    /\ handled # <<>>

(***************************************************************************)
(* Claims about a file that includes itself or starts an include cycle.    *)
(***************************************************************************)
\* the handle calls for fn made since the most recent parse-level call
\* started
HandlesInCall(fn) ==
    Cardinality({i \in DOMAIN handled : i > lastP.nhandled /\ handled[i] = fn})

\* the files whose include directive names the file itself: by its
\* absolute path, and by its bare name found through its own directory
SelfIncluders == {Path("/b", SelfInc), Path("/b", RelSelfInc)}

\* the paths marked since the most recent parse-level call started
MarkedInCall ==
    {depends[i][1] : i \in DOMAIN depends} \
        {lastP.deps0[i][1] : i \in DOMAIN lastP.deps0}

\* C11: a handle call for a file whose include directive resolves to the
\* file's own absolute path handles the file once, and nothing but the
\* file itself (which resolve_file marks) is marked as a dependency.
C11_SelfIncludeOnce ==
    \A fn \in SelfIncluders :
        (lastP.op = "handle" /\ lastP.fn = fn)
            => (HandlesInCall(fn) = 1 /\ MarkedInCall \subseteq {fn})

\* the part of C11 the code keeps: the directive names the file by the
\* very string the file is handled under
SelfIncludeOnceByPath ==
    (lastP.op = "handle" /\ lastP.fn = Path("/b", SelfInc))
        => (HandlesInCall(lastP.fn) = 1 /\ MarkedInCall \subseteq {lastP.fn}
            /\ lastP.err = NoErr)

\* ParseError: the include depth passed the hard limit
ErrIncludeCycle(fn) == ParseError("include cycle suspected", fn)

\* C12: a handle call for a file that starts an include cycle ends with a
\* ParseError that reports a suspected include cycle.
C12_CycleIsParseError ==
    (lastP.op = "handle" /\ lastP.fn = Path("/b", CycA))
        => \E fn \in EvalHandleTargets \cup {Path("/b", CycB), Path("", CycA),
                                             Path("", CycB)} :
                lastP.err = ErrIncludeCycle(fn)

\* what the code does with the cycle: the two files are handled in turn
\* until the interpreter's recursion limit ends the call
CycleEndsAtInterpreterLimit ==
    (lastP.op = "handle" /\ lastP.fn = Path("/b", CycA))
        => (lastP.err = ErrRecursion /\ HandlesInCall(Path("/b", CycB)) >= 2)

(***************************************************************************)
(* Claims about the errors of the recipe handler.                          *)
(***************************************************************************)
\* C13: a handle call for a recipe whose last line opens a shell function,
\* and which inherits a class before it, raises the ParseError for a shell
\* function that is never closed.
C13_NeverClosedRaises ==
    (lastP.op = "handle" /\ lastP.fn = Path("/a", OpenRecipe))
        => lastP.err = ErrNeverClosed(Path("/a", OpenRecipe))

\* what the code does: the error is raised only when the class is already
\* listed in __inherit_cache and so is not handled
NeverClosedRaisesIfNothingHandled ==
    (lastP.op = "handle" /\ lastP.fn = Path("/a", OpenRecipe))
        => (lastP.err = ErrNeverClosed(Path("/a", OpenRecipe))
                <=> HandlesInCall(<<ClassDir, BaseClass>>) = 0)

(***************************************************************************)
(* Claims about continuation lines.                                        *)
(***************************************************************************)
\* the text of line i of the file, as both grammars read it
Phys(i) == rstrip(flines[i].txt)

\* the first call on the file, by either grammar
FirstLinesCall ==
    /\ lastP.op \in {"get_statements", "_get_conf_statements"}
    /\ lastP.fn \in LineFiles
    /\ lastP.residue0 = <<>>
    /\ lastP.read

\* the first line is not a comment and ends in a backslash, the second line
\* starts with '#'
CommentInContinuation ==
    /\ Len(flines) >= 2
    /\ EndsBackslash(Phys(1)) /\ ~StartsHash(Phys(1))
    /\ StartsHash(Phys(2))

\* C14 as stated: in both grammars, a file whose first line is not a
\* comment and ends in a backslash, and whose second line starts with '#',
\* is refused with the fatal error and no statement is emitted.
C14_CommentInContinuationFatal ==
    (FirstLinesCall /\ CommentInContinuation)
        => (lastP.err = ErrFatal(lastP.fn) /\ lastP.stmts = <<>>)

\* what holds of C14: the recipe grammar refuses such a file, with the
\* fatal error or, when the first line is a backslash alone, with IndexError
CommentInContinuationRefusedInRecipes ==
    (FirstLinesCall /\ CommentInContinuation /\ lastP.op = "get_statements")
        => (lastP.err \in {ErrFatal(lastP.fn), ErrIndex} /\ lastP.stmts = <<>>)

\* what the configuration grammar does with it: the comment line is joined
\* like any other line, and when the joined text is an assignment the
\* comment's text is in the value of the statement emitted
CommentJoinedInConf ==
    (FirstLinesCall /\ CommentInContinuation /\ Len(flines) = 2
        /\ lastP.op = "_get_conf_statements"
        /\ IsAssign(DropLast(Phys(1)) \o Phys(2)))
        => /\ lastP.err = NoErr
           /\ lastP.stmts = <<Stmt("data", DropLast(Phys(1)) \o Phys(2),
                                   lastP.fn, FALSE)>>
           /\ "#" \in Range(lastP.stmts[1].arg)

\* the whole file is one run: every line but the last ends in a backslash,
\* the last does not, and no line is a comment
IsRun ==
    /\ Len(flines) >= 2
    /\ \A i \in 1..(Len(flines) - 1) : EndsBackslash(Phys(i))
    /\ ~EndsBackslash(Phys(Len(flines)))
    /\ \A i \in DOMAIN flines : ~StartsHash(Phys(i))

\* the lines of the run put together, each without its trailing white
\* space and its backslash
RunText ==
    StrJoin([i \in DOMAIN flines |->
               IF i < Len(flines) THEN DropLast(Phys(i)) ELSE Phys(i)])

\* C15 as stated: in both grammars a run whose text is an assignment is
\* parsed without error into exactly one statement, whose text is the
\* lines of the run put together, and the residue is empty afterwards.
C15_RunIsOneLogicalLine ==
    (FirstLinesCall /\ IsRun /\ IsAssign(RunText))
        => /\ lastP.err = NoErr
           /\ lastP.stmts = <<Stmt("data", RunText, lastP.fn, FALSE)>>
           /\ residue = <<>>

\* what holds of C15: the same, when the first line of the run is more
\* than a backslash
RunIsOneLogicalLineUnlessBareBackslash ==
    (FirstLinesCall /\ IsRun /\ IsAssign(RunText)
        /\ (Phys(1) # <<Backslash>> \/ lastP.op = "_get_conf_statements"))
        => /\ lastP.err = NoErr
           /\ lastP.stmts = <<Stmt("data", RunText, lastP.fn, FALSE)>>
           /\ residue = <<>>

\* the run that the recipe grammar does not parse
BareBackslashRun ==
    (FirstLinesCall /\ IsRun /\ IsAssign(RunText)
        /\ Phys(1) = <<Backslash>> /\ lastP.op = "get_statements")
        => (lastP.err = ErrIndex /\ residue = <<<<>>>>)

(***************************************************************************)
(* Claims about SkipRecipe and FILE.                                       *)
(***************************************************************************)
\* what the handle functions returned during the most recent call
ReturnedInCall == SubSeq(returned, lastP.nreturned + 1, Len(returned))

\* the most recent call was a call of handle, direct or by
\* include_single_file, on a file whose evaluation raises SkipRecipe
SkipCall ==
    \/ lastP.op = "handle" /\ lastP.fn = Path("/a", SkipRecipe)
    \/ lastP.op = "include_single_file" /\ lastP.fn = Path("", SkipInc)

\* C16 as stated: a call of the recipe handler's handle in whose evaluation
\* SkipRecipe is raised sets __SKIPPED and returns the map { "" : d },
\* whatever the include flag is, and multi_finalize is not applied.
C16_SkipRecipeReturnsMap ==
    SkipCall =>
        /\ lastP.err = NoErr
        /\ SKIPPED
        /\ Len(ReturnedInCall) = 1
        /\ ReturnedInCall[1].kind = "map"

\* what holds of C16: with include = 0 the call does as claimed
SkipRecipeReturnsMapAtTopLevel ==
    (lastP.op = "handle" /\ lastP.fn = Path("/a", SkipRecipe))
        => /\ lastP.err = NoErr
           /\ SKIPPED
           /\ Len(ReturnedInCall) = 1
           /\ ReturnedInCall[1].kind = "map"

\* with include # 0 the call sets __SKIPPED and returns the datastore
SkipRecipeInIncludeReturnsDatastore ==
    (lastP.op = "include_single_file" /\ lastP.fn = Path("", SkipInc))
        => /\ lastP.err = NoErr
           /\ SKIPPED
           /\ Len(ReturnedInCall) = 1
           /\ ReturnedInCall[1].kind = "datastore"
           /\ ReturnedInCall[1].include # 0

\* and the recipe that required the file is finalized with __SKIPPED set
SkippedRecipeIsFinalized ==
    (lastP.op = "handle" /\ lastP.fn = Path("/a", SkipUser))
        => /\ lastP.err = NoErr
           /\ Len(ReturnedInCall) = 2
           /\ ReturnedInCall[2].kind = "finalized"
           /\ ReturnedInCall[2].SKIPPED

\* C17 as stated: a call of handle with include # 0 that begins with FILE
\* set and returns, at any depth, leaves FILE as it found it; and FILE is
\* the path of the recipe when multi_finalize is applied to it.
C17_FileRestored ==
    \A i \in DOMAIN returned :
        /\ (returned[i].include # 0 /\ returned[i].file0 # NoFile)
               => returned[i].FILE = returned[i].file0
        /\ returned[i].kind = "finalized"
               => returned[i].FILE = returned[i].abs_fn

\* what holds of C17: the same, for the calls that return with __SKIPPED
\* not set
FileRestoredUnlessSkipped ==
    \A i \in DOMAIN returned :
        ~returned[i].SKIPPED =>
            /\ (returned[i].include # 0 /\ returned[i].file0 # NoFile)
                   => returned[i].FILE = returned[i].file0
            /\ returned[i].kind = "finalized"
                   => returned[i].FILE = returned[i].abs_fn

\* on a fresh datastore, the class whose include raised SkipRecipe returns
\* with FILE naming the included file, and the recipe is finalized with it
SkipInClassLeavesFile ==
    (lastP.op = "handle" /\ lastP.fn = Path("/a", SkipClassRecipe)
        /\ lastP.nhandled = 0)
        => /\ lastP.err = NoErr
           /\ Len(ReturnedInCall) = 2
           /\ ReturnedInCall[1].fn[2] = SkipClass
           /\ ReturnedInCall[1].file0 = Path("/a", SkipClassRecipe)
           /\ ReturnedInCall[1].FILE = Path("/b", SkipConf)
           /\ ReturnedInCall[2].kind = "finalized"
           /\ ReturnedInCall[2].FILE = Path("/b", SkipConf)

\* include_single_file called handle(fn, d, True) with FILE set, for a file
\* handled by either handler, and the evaluation of the file raised
\* ParseError for its require of a file that exists nowhere
EvaluationRaised ==
    /\ lastP.op = "include_single_file"
    /\ lastP.fn \in {Path("/b", BadInc), Path("/b", BadConf)}
    /\ lastP.file0 # NoFile
    /\ lastP.err = ErrCouldNotInclude(lastP.fn)

\* C18 as stated: when a call of handle with include # 0 that began with
\* FILE set exits by an exception raised in the evaluation of the included
\* file, FILE has the value it had before the call.
C18_FileRestoredOnError ==
    EvaluationRaised => FILE = lastP.file0

\* what the code does: FILE is left naming the included file
FileLeftAtIncludedFile ==
    EvaluationRaised => FILE = lastP.fn

(***************************************************************************)
(* Claims about files and classes that are not found.                      *)
(***************************************************************************)
\* include_single_file was called for a relative name that no directory has
IncludeMissing ==
    lastP.op = "include_single_file" /\ lastP.fn = Path("", Missing)

\* the paths tried for it: the directory of the including file, then the
\* directories of BBPATH
MissingAttempts ==
    {<<lastP.parentfn[1], Missing>>} \cup
        {Path(BBPATH[i], Missing) : i \in DOMAIN BBPATH}

\* the paths of __depends when the most recent call began
DependsPaths0 == {lastP.deps0[i][1] : i \in DOMAIN lastP.deps0}

ClassCandidates(name) ==
    {<<<<BBPATH[i], sub>>, name>> :
        i \in DOMAIN BBPATH, sub \in {"classes-" \o BBCLASSTYPE, "classes"}}

\* inherit was called for the one class name c and could not resolve it
InheritFailed(c) ==
    /\ lastP.op = "inherit"
    /\ lastP.classes = <<<<NoDir, <<c[1], "">>>>>>
    /\ lastP.err = ErrCouldNotInherit(Path("/a", R))

\* C20 as stated: when inherit cannot resolve a class name it raises
\* ParseError with every candidate path marked in __depends, no call of
\* handle and __inherit_cache as it was; when it resolves the name, every
\* candidate path searched before the winner is marked in __depends.
C20_InheritUnresolved ==
    /\ \A c \in {BaseClass, NoClass} :
           InheritFailed(c) =>
               /\ ClassCandidates(c) \subseteq DependsPaths
               /\ Len(handled) = lastP.nhandled
               /\ inherit_cache = lastP.icache0
    /\ (lastP.op = "inherit" /\ lastP.classes = <<PlainBase>>
           /\ lastP.err = NoErr)
           => {<<<<BBPATH[i], "classes-" \o BBCLASSTYPE>>, BaseClass>> :
                   i \in DOMAIN BBPATH} \subseteq DependsPaths

\* what holds of C20: the same, for a class that never was in a directory
InheritUnresolvedNeverThere ==
    InheritFailed(NoClass) =>
        /\ ClassCandidates(NoClass) \subseteq DependsPaths
        /\ Len(handled) = lastP.nhandled
        /\ inherit_cache = lastP.icache0

\* for a class that was removed, every candidate but the one that the
\* memo of _resolve_inherit_file names is marked, and handle is not called
InheritUnresolvedRemoved ==
    InheritFailed(BaseClass) =>
        /\ (ClassCandidates(BaseClass) \ {<<ClassDir, BaseClass>>})
               \subseteq DependsPaths
        /\ Len(handled) = lastP.nhandled
        /\ inherit_cache = lastP.icache0

\* the removed class is resolved from the memo, and its path is not marked
\* on a datastore that had no mark of it
RemovedClassNotMarked ==
    (InheritFailed(BaseClass) /\ <<ClassDir, BaseClass>> \notin DependsPaths0
        /\ \E k \in DOMAIN inherit_resolved_cache :
               inherit_resolved_cache[k][1] = <<ClassDir, BaseClass>>)
        => <<ClassDir, BaseClass>> \notin DependsPaths

(***************************************************************************)
(* Deferred inherits.                                                      *)
(***************************************************************************)
\* the triples inherit_defer records for the names of one call
DeferTriples(files, fn, lineno) ==
    [i \in DOMAIN files |-> <<files[i], fn, lineno>>]

\* the class file a plain class name stands for
ClassFileOf(c) == <<ClassDir, <<c[2][1], ".bbclass">>>>

\* this step is one call of inherit from the recipe
InheritStep == parseCalls' = parseCalls + 1 /\ lastP'.op = "inherit"

\* the triples this step appended to __BBDEFINHERITS
NewTriples ==
    SubSeq(BBDEFINHERITS', Len(BBDEFINHERITS) + 1, Len(BBDEFINHERITS'))

DeferredInheritStep ==
    /\ (InheritStep /\ ~lastP'.deferred
          /\ Range(lastP'.classes) \subseteq BB_DEFER_BBCLASSES)
          => /\ BBDEFINHERITS' = BBDEFINHERITS \o
                   DeferTriples(lastP'.classes, lastP'.fn, lastP'.lineno)
             /\ lastP'.err = NoErr
             /\ inherit_cache' = inherit_cache
             /\ handled' = handled
             /\ depends' = depends
             /\ totals' = totals
             /\ UNCHANGED indexCaches
    /\ lastP'.op # "new_datastore" => IsPrefix(BBDEFINHERITS, BBDEFINHERITS')
    /\ (InheritStep /\ lastP'.deferred /\ lastP'.err = NoErr)
          => /\ \A i \in DOMAIN lastP'.classes :
                    LET file == ClassFileOf(lastP'.classes[i])
                    IN  /\ file \in Range(inherit_cache')
                        /\ file \notin Range(inherit_cache)
                               => file \in Range(SubSeq(handled',
                                      Len(handled) + 1, Len(handled')))
             /\ \A j \in DOMAIN NewTriples : NewTriples[j][2] # lastP'.fn

\* C21: inherit with deferred=false on names listed in BB_DEFER_BBCLASSES
\* appends exactly one triple (name, from_file, lineno) per name to
\* __BBDEFINHERITS, resolves nothing, leaves __inherit_cache alone and
\* does not call handle; the triples stay in the order they were deferred;
\* with deferred=true the same names are inherited normally.
C21_DeferredInherit == [][DeferredInheritStep]_vars

\* two names were deferred by one call, after an earlier deferral
C21_Witness ==
    /\ lastP.op = "inherit"
    /\ ~lastP.deferred
    /\ lastP.classes = <<PlainMid, PlainBase>>
    /\ lastP.ndefinh > 0
    /\ BBDEFINHERITS = SubSeq(BBDEFINHERITS, 1, lastP.ndefinh) \o
           DeferTriples(lastP.classes, lastP.fn, lastP.lineno)
    /\ BBDEFINHERITS[1][3] # lastP.lineno

(***************************************************************************)
(* The order of __inherit_cache.                                           *)
(***************************************************************************)
\* the elements of s in the order of their first occurrence
RECURSIVE FirstOccurrences(_)
FirstOccurrences(s) ==
    IF s = <<>> THEN <<>>
    ELSE LET front == FirstOccurrences(SubSeq(s, 1, Len(s) - 1))
         IN  IF s[Len(s)] \in Range(front) THEN front
             ELSE Append(front, s[Len(s)])

IsClassFile(fn) == fn[2][2] = ".bbclass"

\* the class files in the order bb.parse.handle was first called for them
ClassesBegun == FirstOccurrences(SelectSeq(handled, IsClassFile))

\* C22: __inherit_cache lists the class files in the order their
\* inheritance began (a class comes before the classes it inherits for the
\* first time), and entries are never removed or reordered.
C22_InheritOrder ==
    /\ [](inherit_cache = ClassesBegun)
    /\ [][lastP'.op # "new_datastore"
            => IsPrefix(inherit_cache, inherit_cache')]_vars

\* inherit mid, where mid inherits base, gave [mid, base]
C22_Witness ==
    /\ lastP.op = "inherit"
    /\ lastP.classes = <<PlainMid>>
    /\ lastP.icache0 = <<>>
    /\ lastP.err = NoErr
    /\ inherit_cache = <<<<ClassDir, MidClass>>, <<ClassDir, BaseClass>>>>

(***************************************************************************)
(* The stamp a mark records.                                               *)
(***************************************************************************)
\* the most recent call was mark_dependency(d, f), and nothing changed since
MarkedLast(f) == lastR.op = "mark_dependency" /\ lastR.fn = f

\* C23 as stated: the stamp stored in __depends with a path by the most
\* recent mark_dependency of that path is what os.stat of the path returned
\* at that mark: the stat triple if the file existed, and 0 if it did not.
C23_StampIsStat ==
    \A f \in MarkTargets :
        MarkedLast(f) => <<DepPath(f), Stat(DepPath(f))>> \in Range(depends)

\* what holds of C23: the stamp recorded is the one __mtime_cache holds for
\* the path, which is the result of the first os.stat of it that succeeded
MarkStampIsCachedStamp ==
    \A f \in MarkTargets :
        MarkedLast(f) =>
            <<DepPath(f), IF DepPath(f) \in DOMAIN mtime_cache
                          THEN mtime_cache[DepPath(f)] ELSE 0>>
                \in Range(depends)

\* and a path that no os.stat found so far is recorded with the 0 of now
MarkStampOfUncached ==
    \A f \in MarkTargets :
        (MarkedLast(f) /\ Stat(DepPath(f)) = 0
            /\ DepPath(f) \notin DOMAIN mtime_cache)
            => <<DepPath(f), 0>> \in Range(depends)

(***************************************************************************)
(* The winner of a plain class name with the class index on and off.       *)
(***************************************************************************)
\* the first path of a list of candidates that exists, NoFile if none does
RECURSIVE FirstExisting(_)
FirstExisting(cands) ==
    IF cands = <<>> THEN NoFile
    ELSE IF Exists(Head(cands)) THEN Head(cands)
    ELSE FirstExisting(Tail(cands))

\* the candidates {p}/classes-{t} then {p}/classes, for each p in order
PathMajorWinner(origfile) ==
    FirstExisting(ClassAttempts(BBPATH, origfile, BBCLASSTYPE))

\* the candidates {p}/classes-{t} for each p in order, then {p}/classes
\* for each p in order
TypeMajorWinner(origfile) ==
    LET c == ClassAttempts(BBPATH, origfile, BBCLASSTYPE)
    IN  FirstExisting([i \in DOMAIN c |->
            IF 2 * i <= Len(c) + 1 THEN c[2 * i - 1]
            ELSE c[2 * (i - (Len(c) \div 2))]])

\* the most recent call resolved the plain class name origfile
ResolvedPlain(origfile) ==
    /\ lastI.op = "resolve_inherit"
    /\ lastI.origfile = origfile

\* C24 as stated: with BB_OPT_DISABLE_CLASS_INDEX set and with it unset,
\* the class file a plain class name resolves to is the first existing
\* candidate in the order {p}/classes-{t} then {p}/classes, taken for each
\* p of the search path in order.
C24_SameWinner ==
    \A c \in ClassOrderTargets :
        ResolvedPlain(c) => lastI.val[1] = PathMajorWinner(c)

\* what holds of C24: that is the winner when the switch is unset
IndexWinnerIsPathMajor ==
    \A c \in ClassOrderTargets :
        (ResolvedPlain(c) /\ ~ClassIndexDisabled)
            => lastI.val[1] = PathMajorWinner(c)

\* with the switch set the winner is the first existing candidate in the
\* order of the two which() walks: every classes-{t}, then every classes
DisabledWinnerIsTypeMajor ==
    \A c \in ClassOrderTargets :
        (ResolvedPlain(c) /\ ClassIndexDisabled)
            => lastI.val[1] = TypeMajorWinner(c)

(***************************************************************************)
(* The counters of resolve_file.                                           *)
(***************************************************************************)
\* this step is one call of resolve_file with a relative name, the
\* resolver cache being enabled
CountedResolveStep ==
    /\ times'["resolve_file"] = times["resolve_file"] + 1
    /\ lastR'.op = "resolve_file"
    /\ ~IsAbs(lastR'.fn)
    /\ ~ResolveCacheDisabled

ResolveCountersStep ==
    CountedResolveStep =>
        LET t0 == totals["resolve_file"]
            t1 == totals'["resolve_file"]
        IN  IF ResolveKey(lastR'.fn, BBPATH) \in DOMAIN resolve_cache
            THEN t1.hits = t0.hits + 1 /\ t1.misses = t0.misses
            ELSE t1.misses = t0.misses + 1 /\ t1.hits = t0.hits

\* C25: with the resolver cache enabled every resolve_file call with a
\* relative name adds one to misses when its key (name, BBPATH) is not in
\* the cache and one to hits when it is, and to nothing else of the two;
\* so hits + misses is the number of such calls, and evictions never
\* exceeds misses.
C25_ResolveCounters ==
    /\ [][ResolveCountersStep]_vars
    /\ [](~ResolveCacheDisabled =>
            /\ totals["resolve_file"].hits + totals["resolve_file"].misses
                   = times["resolve_file"]
            /\ totals["resolve_file"].evictions
                   <= totals["resolve_file"].misses)

\* a call answered by the cache, after misses of which one evicted a key
C25_Witness ==
    /\ ~ResolveCacheDisabled
    /\ lastR.op = "resolve_file"
    /\ lastR.hit
    /\ totals["resolve_file"].hits >= 2
    /\ totals["resolve_file"].evictions >= 1
    /\ totals["resolve_file"].misses > totals["resolve_file"].evictions

(***************************************************************************)
(* The include-history scopes of bb.parse.handle.                          *)
(***************************************************************************)
\* the calls of handle and the scopes entered since the most recent
\* parse-level call began
NewHandled == SubSeq(handled, lastP.nhandled + 1, Len(handled))
NewScopes == SubSeq(scopes, lastP.nscopes + 1, Len(scopes))

HasHandler(fn) == SupportingHandler(fn) # "None"

ErrKind(e) == <<e[1], e[2]>>

\* the most recent call was resolve_file on a name whose candidate exists
\* and is not a regular file
ResolvedNonRegular ==
    /\ lastR.op = "resolve_file"
    /\ \E c \in AbsPaths :
          /\ \/ IsAbs(lastR.fn) /\ c = lastR.fn
             \/ ~IsAbs(lastR.fn) /\ lastR.attempts # <<>>
                  /\ c = Real(lastR.attempts[Len(lastR.attempts)])
          /\ Exists(c)
          /\ ~IsFile(c)

\* C27 as stated: resolve_file on a name whose candidate path exists but is
\* not a regular file fails with an error of the not-a-file kind, which is
\* not the kind of the error raised when no candidate exists.
C27_NotAFileKind ==
    ResolvedNonRegular =>
        /\ lastR.err # NoErr
        /\ ErrKind(lastR.err) # ErrKind(ErrNotFoundInPath)

\* what holds of C27: the call fails, with IOError(ENOENT) and the message
\* "file ... not found"
NonRegularIsNotFound == ResolvedNonRegular => lastR.err = ErrNotFound

\* and an absolute name gets that very error when nothing exists at it
AbsentAbsoluteIsNotFound ==
    (lastR.op = "resolve_file" /\ IsAbs(lastR.fn) /\ ~Exists(lastR.fn))
        => lastR.err = ErrNotFound

(***************************************************************************)
(* The counters under threads.                                             *)
(***************************************************************************)
IsBump(t) == threads[t].op \in DOMAIN BumpOps

\* thread t is inside a with block of the metrics module
InLock(t) == threads[t].pc \in {"read", "write", "update", "release"}

\* a step of a call of hit, miss or evict on a section without a bucket
NoBucketStep(t) ==
    /\ IsBump(t)
    /\ threads[t].pc # "idle"
    /\ threads[t].section \notin DOMAIN totals
    /\ threads'[t] # threads[t]

\* C28: hit, miss and evict on a section name without a counter bucket
\* return normally, change no counter and give the lock back, so that
\* later calls of the metrics module go on.
C28_NoBucketNoRaise ==
    /\ [][\A t \in Threads :
             NoBucketStep(t) =>
                 /\ totals' = totals
                 /\ ~threads'[t].raised
                 /\ threads'[t].pc = "idle" => lock' # t]_vars
    /\ [](\A t \in Threads :
             /\ lock = t => InLock(t)
             /\ ~threads[t].raised)

\* thread 1 called miss on a section without a bucket and hit("which"),
\* and both calls returned
C28_Witness ==
    /\ threads["t1"].made = 2
    /\ threads["t2"].made = 0
    /\ threads["t1"].pc = "idle"
    /\ calls[<<NoSection, "misses">>] = 1
    /\ calls[<<"which", "hits">>] = 1
    /\ totals["which"].hits = 1
    /\ lock = NoThread

\* the calls of hit, miss or evict that have stored their sum and not yet
\* returned
Stored(section, field) ==
    {t \in Threads : IsBump(t) /\ threads[t].pc = "release"
                        /\ threads[t].section = section
                        /\ threads[t].field = field}

\* a step inside a call of flush
FlushStep(t) ==
    /\ threads[t].op = "flush"
    /\ threads[t].pc # "idle"
    /\ threads'[t] # threads[t]

\* C29: with threads calling hit, miss, evict and flush at the same time
\* no update of a counter is lost: every counter is the number of calls
\* made for its section and field once they are complete, and a flush
\* neither resets nor changes a counter.
C29_NoLostUpdate ==
    /\ [](\A section \in Sections, field \in Fields :
             totals[section][field] =
                 calls[<<section, field>>]
                   + Cardinality(Stored(section, field)))
    /\ [][\A t \in Threads : FlushStep(t) => totals' = totals]_vars
    /\ [][\A section \in Sections, field \in Fields :
             totals'[section][field] >= totals[section][field]]_vars

\* three calls of hit("which") by two threads are complete, and a flush
\* between them wrote a payload
C29_Witness ==
    /\ \A t \in Threads : threads[t].pc = "idle" /\ threads[t].made = 2
    /\ totals["which"].hits = 3
    /\ calls[<<"which", "hits">>] = 3
    /\ Len(flushed) = 1
    /\ flushed[1]["which"].hits = 1

(***************************************************************************)
(* The handler a name gets, with and without the extension cache.          *)
(***************************************************************************)
\* C30 as stated: the handler selected for a name with the extension
\* cache enabled is the one selected with the cache disabled, the first
\* registered handler whose supports(name) is true, or none; an entry
\* cached for one name changes the handler of no other name.
C30_SameHandler ==
    /\ lastP.op = "supports" => lastP.h = SupportingHandler(lastP.fn)
    /\ lastP.op = "handle"
           => (HasHandler(lastP.fn) <=> lastP.err # ErrNotBitBake(lastP.fn))

\* what holds of C30: that is the handler when the cache is disabled
UncachedHandler ==
    (lastP.op = "supports" /\ SupportsCacheDisabled)
        => lastP.h = SupportingHandler(lastP.fn)

\* and, with the cache, for every name that has an extension
HandlerOfExtension ==
    (lastP.op = "supports" /\ lastP.fn[2][2] # "")
        => lastP.h = SupportingHandler(lastP.fn)

(***************************************************************************)
(* Shell function bodies in the recipe feeder.                             *)
(***************************************************************************)
\* the line the feeder is given in this step, as get_statements hands it
\* over (without its trailing white space)
FedLine == rstrip(flines[lastP'.lineno].txt)

\* a step of the feeder while a function is open
FedInFunction ==
    /\ lastP'.op = "feeder"
    /\ lastP'.lineno = lastP.lineno + 1
    /\ infunc # <<>>

\* the line is kept in the body as it is, and nothing else happens
BodyLineStep ==
    /\ body' = Append(body, FedLine)
    /\ lastP'.stmts = lastP.stmts
    /\ lastP'.err = NoErr
    /\ infunc' = infunc
    /\ residue' = residue

\* the function is closed: one method node, made of the lines kept
ClosingLineStep ==
    /\ lastP'.stmts = Append(lastP.stmts,
                             Stmt("method", Append(body, <<>>), FuncFile,
                                  FALSE))
    /\ lastP'.err = NoErr
    /\ infunc' = <<>>
    /\ body' = <<>>
    /\ residue' = residue

\* C31: in the recipe feeder, while a shell function is open, every line
\* that is not a closing brace alone is appended unchanged to the function
\* body and emits no statement, whatever it looks like (comment,
\* assignment, directive, line ending in a backslash, nested opening
\* line); the closing line emits exactly one method node and leaves the
\* parser with no open function and an empty body.
C31_BodyVerbatim ==
    [][FedInFunction =>
          IF FedLine = <<"}">> THEN ClosingLineStep ELSE BodyLineStep]_vars

\* a function was opened, a nested opening line and a line ending in a
\* backslash were kept, and the fourth line closed it into one method node
C31_Witness ==
    /\ lastP.op = "feeder"
    /\ lastP.lineno = 4
    /\ infunc = <<>>
    /\ body = <<>>
    /\ lastP.stmts = <<Stmt("method", <<<<"f{">>, <<"v", Backslash>>, <<>>>>,
                             FuncFile, FALSE)>>

(***************************************************************************)
(* The order lists of the directory indexes.                               *)
(***************************************************************************)
IndexCacheOf(idx) ==
    IF idx = "class" THEN class_index_cache ELSE include_index_cache

IndexOrderOf(idx) ==
    IF idx = "class" THEN class_index_order ELSE include_index_order

\* C32 as stated: for the class index and the include index, in every
\* reachable state the order list holds each key at most once and holds
\* exactly the keys of the index cache, and the entry a call has just
\* built is not the one its eviction removes.
C32_OrderMatchesCache ==
    \A idx \in {"class", "include"} :
        /\ NoDup(IndexOrderOf(idx))
        /\ Range(IndexOrderOf(idx)) = DOMAIN IndexCacheOf(idx)
        /\ (lastI.op = "get_index" /\ lastI.idx = idx /\ lastI.rebuilt)
               => lastI.key \in DOMAIN IndexCacheOf(idx)

\* what holds of C32: every key of the cache is in the order list, and
\* neither is longer than the capacity
OrderCoversCache ==
    \A idx \in {"class", "include"} :
        /\ DOMAIN IndexCacheOf(idx) \subseteq Range(IndexOrderOf(idx))
        /\ Len(IndexOrderOf(idx)) <= IndexCapacity(idx)

(***************************************************************************)
(* Classes that inherit each other.                                        *)
(***************************************************************************)
\* the file of a class of the scenario, wherever the layout put it
PlaceOf(name) == CHOOSE p \in AbsPaths : p[2] = name /\ fs[p] # 0

\* the classes a call reaches from the classes it names
CycleOf(fn) ==
    IF fn = Path("/a", CycRecipe) THEN {CycClassA, CycClassB}
    ELSE {SelfClass}

\* a handle call for one of the recipes, on a datastore that has inherited
\* nothing yet
CycleRecipeHandled ==
    /\ lastP.op = "handle"
    /\ lastP.fn \in CycleRecipes
    /\ lastP.icache0 = <<>>

\* C33: handling a recipe whose classes inherit each other in a cycle (A
\* inherits B and B inherits A, or a class inherits itself) terminates:
\* the call returns without an error, each class of the cycle is handled
\* exactly once, and the inherit of a class whose handling is in progress
\* is skipped (the class is listed once and nothing else is handled).
C33_CycleHandledOnce ==
    CycleRecipeHandled =>
        /\ lastP.err = NoErr
        /\ \A c \in CycleOf(lastP.fn) : HandlesInCall(PlaceOf(c)) = 1
        /\ Len(handled) - lastP.nhandled = 1 + Cardinality(CycleOf(lastP.fn))
        /\ NoDup(inherit_cache)
        /\ Range(inherit_cache) = {PlaceOf(c) : c \in CycleOf(lastP.fn)}

\* the recipe that inherits cyca was handled: cyca and then cycb were,
\* once each, the second one from a directory of its own
C33_Witness ==
    /\ lastP.op = "handle"
    /\ lastP.fn = Path("/a", CycRecipe)
    /\ lastP.err = NoErr
    /\ handled = <<Path("/a", CycRecipe), <<<<"/a", "classes">>, CycClassA>>,
                   <<<<"/b", "classes">>, CycClassB>>>>
    /\ inherit_cache = <<<<<<"/a", "classes">>, CycClassA>>,
                         <<<<"/b", "classes">>, CycClassB>>>>

====
